---- MODULE Spec2Model ----
(***************************************************************************)
(* MyPlanner: the task collection of App (src/App.tsx) and the calendar    *)
(* view engine CalendarView (src/App.tsx, second half).                    *)
(*                                                                         *)
(* Time values are JavaScript Date time values counted in MINUTES since    *)
(* the epoch instead of milliseconds (TLC integers are 32 bits wide and    *)
(* the repository never looks below the minute); every string the code     *)
(* splits, parses or formats is a sequence of one-character strings.       *)
(***************************************************************************)
EXTENDS Integers, Sequences, FiniteSets, TLC

VARIABLES
    tasks,        \* App state `tasks` / CalendarView prop `tasks`
    nextId,       \* number of ids crypto.randomUUID() has handed out
    currentDate,  \* CalendarView state `currentDate` (a Date time value)
    viewMode,     \* CalendarView state `viewMode`
    now,          \* the ambient clock read by `new Date()`
    tz,           \* the runtime's time zone, minutes east of UTC
    navCount,     \* number of prev/next clicks so far (bounds the model)
    categories,   \* App state `categories` / CalendarView prop `categories`
    fired,        \* the callbacks the last click has invoked, in order
    form,         \* App state of the task modal, its form and the category modal
    listed,       \* what the Schedule view listed before the last recorded click
    draggedItem,  \* App state `draggedItem`: <<>> for null, else <<task>>
    reminder,     \* App's reminder state, its ref and its pending timer
    voice         \* VoiceInput: its state, its recorder and its pending work

vars == <<tasks, nextId, currentDate, viewMode, now, tz, navCount,
          categories, fired, form, listed, draggedItem, reminder, voice>>

----------------------------------------------------------------------------
(* Bounds of the model *)

MaxTasks == 3
MaxNav == 2
MaxTicks == 1
MaxCategories == 2
MaxImports == 2
\* The recordings started in one behaviour.
MaxRecordings == 2

----------------------------------------------------------------------------
(* ECMAScript Date arithmetic, as used by every Date call of CalendarView *)

MinutesPerDay == 1440

\* The number NaN (the time value of an Invalid Date).  Every time value of
\* the model is positive and every month, day or offset argument is far
\* above this number.
NaN == 0 - 2000000000

Day(t) == t \div MinutesPerDay

TimeWithinDay(t) == t % MinutesPerDay

IsLeapYear(y) == (y % 4 = 0 /\ y % 100 /= 0) \/ y % 400 = 0

DaysInYear(y) == IF IsLeapYear(y) THEN 366 ELSE 365

DayFromYear(y) ==
    365 * (y - 1970) + ((y - 1969) \div 4) - ((y - 1901) \div 100)
        + ((y - 1601) \div 400)

YearOfDay(d) ==
    LET est == 1970 + (d \div 366)
    IN  CHOOSE y \in est..(est + 2) : DayFromYear(y) <= d /\ d < DayFromYear(y + 1)

\* Days before the first of each month of a common year.
CommonYearDays == <<0, 31, 59, 90, 120, 151, 181, 212, 243, 273, 304, 334>>

\* Days before the first of month m (0..11) within year y.
DaysBeforeMonth(y, m) ==
    CommonYearDays[m + 1] + (IF m >= 2 /\ IsLeapYear(y) THEN 1 ELSE 0)

DaysInMonthOf(y, m) ==
    IF m = 11 THEN 31 ELSE DaysBeforeMonth(y, m + 1) - DaysBeforeMonth(y, m)

\* The month (0..11) holding day k (0..365) of year y.
MonthOfYearDay(y, k) ==
    CHOOSE m \in 0..11 :
        /\ DaysBeforeMonth(y, m) <= k
        /\ k < DaysBeforeMonth(y, m) + DaysInMonthOf(y, m)

MonthOfDay(d) ==
    LET y == YearOfDay(d)
    IN  MonthOfYearDay(y, d - DayFromYear(y))

DateOfDay(d) ==
    LET y == YearOfDay(d)
        k == d - DayFromYear(y)
    IN  k - DaysBeforeMonth(y, MonthOfYearDay(y, k)) + 1

\* The days around the model's dates, with their year, month and date
\* worked out once.
TabledDays == DayFromYear(2024 - 5)..DayFromYear(2024 + 6)

CivilTable == [d \in TabledDays |-> <<YearOfDay(d), MonthOfDay(d), DateOfDay(d)>>]

YearFromDay(d) == IF d \in TabledDays THEN CivilTable[d][1] ELSE YearOfDay(d)

MonthFromDay(d) == IF d \in TabledDays THEN CivilTable[d][2] ELSE MonthOfDay(d)

DateFromDay(d) == IF d \in TabledDays THEN CivilTable[d][3] ELSE DateOfDay(d)

WeekDay(d) == (d + 4) % 7

\* MakeDay(year, month, date): month and date may lie outside their ranges
\* and carry over into the neighbouring months and years.
MakeDay(year, month, date) ==
    LET ym == year + (month \div 12)
        mn == month % 12
    IN  DayFromYear(ym) + DaysBeforeMonth(ym, mn) + date - 1

LocalTime(t) == t + tz

UTCTime(l) == l - tz

----------------------------------------------------------------------------
(* The Date methods CalendarView calls.  A Date is its time value. *)

getFullYear(t) == IF t = NaN THEN NaN ELSE YearFromDay(Day(LocalTime(t)))

getMonth(t) == IF t = NaN THEN NaN ELSE MonthFromDay(Day(LocalTime(t)))

getDate(t) == IF t = NaN THEN NaN ELSE DateFromDay(Day(LocalTime(t)))

getDay(t) == IF t = NaN THEN NaN ELSE WeekDay(Day(LocalTime(t)))

\* date.setDate(n): the local day-of-month becomes n, carrying over.
setDate(t, n) ==
    IF t = NaN \/ n = NaN THEN NaN
    ELSE LET l == LocalTime(t)
             y == YearFromDay(Day(l))
             m == MonthFromDay(Day(l))
         IN  UTCTime(MakeDay(y, m, n) * MinutesPerDay + TimeWithinDay(l))

\* date.setMonth(n): the day-of-month is kept and carries over when the
\* target month is shorter.
setMonth(t, n) ==
    IF t = NaN \/ n = NaN THEN NaN
    ELSE LET l == LocalTime(t)
             y == YearFromDay(Day(l))
             d == DateFromDay(Day(l))
         IN  UTCTime(MakeDay(y, n, d) * MinutesPerDay + TimeWithinDay(l))

\* date.setFullYear(n): month and day-of-month are kept and carry over.
setFullYear(t, n) ==
    IF t = NaN \/ n = NaN THEN NaN
    ELSE LET l == LocalTime(t)
             m == MonthFromDay(Day(l))
             d == DateFromDay(Day(l))
         IN  UTCTime(MakeDay(n, m, d) * MinutesPerDay + TimeWithinDay(l))

\* date.setHours(0,0,0,0): local midnight of the same local day.
setHoursMidnight(t) ==
    IF t = NaN THEN NaN ELSE UTCTime(Day(LocalTime(t)) * MinutesPerDay)

\* new Date(y, m, d): local midnight of the given local calendar day.
NewDateYMD(y, m, d) ==
    IF y = NaN \/ m = NaN \/ d = NaN THEN NaN
    ELSE LET yr == IF 0 <= y /\ y <= 99 THEN 1900 + y ELSE y
         IN  UTCTime(MakeDay(yr, m, d) * MinutesPerDay)

----------------------------------------------------------------------------
(* Strings *)

DigitChars == <<"0", "1", "2", "3", "4", "5", "6", "7", "8", "9">>

DigitSet == {DigitChars[i] : i \in 1..10}

DigitValues == [c \in DigitSet |-> (CHOOSE i \in 1..10 : DigitChars[i] = c) - 1]

IsDigit(c) == c \in DigitSet

DigitVal(c) == DigitValues[c]

IsDigits(s) == Len(s) > 0 /\ \A i \in 1..Len(s) : IsDigit(s[i])

RECURSIVE NumVal(_)
NumVal(s) ==
    IF s = <<>> THEN 0
    ELSE NumVal(SubSeq(s, 1, Len(s) - 1)) * 10 + DigitVal(s[Len(s)])

Pad2(n) == <<DigitChars[((n \div 10) % 10) + 1], DigitChars[(n % 10) + 1]>>

Pad4(n) == Pad2(n \div 100) \o Pad2(n % 100)

\* The value of a property that was never set.
Undefined == <<"undefined">>

\* Truthy with the empty string let through.
TruthyDefined(s) == s /= Undefined

\* JavaScript truthiness of an optional string.
Truthy(s) == s /= Undefined /\ s /= <<>>

\* Index of the first occurrence of character c in s, 0 when there is none.
IndexOf(s, c) ==
    LET hits == {i \in 1..Len(s) : s[i] = c}
    IN  IF hits = {} THEN 0 ELSE CHOOSE i \in hits : \A j \in hits : i <= j

\* s.split(c)[0]
SplitFirst(s, c) ==
    LET i == IndexOf(s, c)
    IN  IF i = 0 THEN s ELSE SubSeq(s, 1, i - 1)

\* s.split(c)
RECURSIVE Split(_, _)
Split(s, c) ==
    LET i == IndexOf(s, c)
    IN  IF i = 0 THEN <<s>>
        ELSE <<SubSeq(s, 1, i - 1)>> \o Split(SubSeq(s, i + 1, Len(s)), c)

\* Number(s) for the pieces of a split key; Number("") is 0.
Number(s) ==
    IF s = <<>> THEN 0 ELSE IF IsDigits(s) THEN NumVal(s) ELSE NaN

\* What date.toISOString() raises on an Invalid Date.
RangeError == <<"RangeError">>

\* date.toISOString(): the UTC fields as YYYY-MM-DDTHH:mm:ss.sssZ.
toISOString(t) ==
    IF t = NaN THEN RangeError
    ELSE Pad4(YearFromDay(Day(t))) \o <<"-">> \o Pad2(MonthFromDay(Day(t)) + 1)
            \o <<"-">> \o Pad2(DateFromDay(Day(t))) \o <<"T">>
            \o Pad2(TimeWithinDay(t) \div 60) \o <<":">>
            \o Pad2(TimeWithinDay(t) % 60)
            \o <<":", "0", "0", ".", "0", "0", "0", "Z">>

\* The calendar day named by the date part of an ISO-8601 string (YYYY,
\* YYYY-MM or YYYY-MM-DD), as a day number; NaN when the text has another
\* shape or a field is out of range.
ParseDatePart(s) ==
    LET shape ==
            \/ Len(s) = 4 /\ IsDigits(s)
            \/ /\ Len(s) = 7
               /\ IsDigits(SubSeq(s, 1, 4)) /\ s[5] = "-" /\ IsDigits(SubSeq(s, 6, 7))
            \/ /\ Len(s) = 10
               /\ IsDigits(SubSeq(s, 1, 4)) /\ s[5] = "-" /\ IsDigits(SubSeq(s, 6, 7))
               /\ s[8] = "-" /\ IsDigits(SubSeq(s, 9, 10))
        y == NumVal(SubSeq(s, 1, 4))
        m == IF Len(s) >= 7 THEN NumVal(SubSeq(s, 6, 7)) ELSE 1
        d == IF Len(s) >= 10 THEN NumVal(SubSeq(s, 9, 10)) ELSE 1
    IN  IF shape /\ 1 <= m /\ m <= 12 /\ 1 <= d /\ d <= DaysInMonthOf(y, m - 1)
        THEN MakeDay(y, m - 1, d)
        ELSE NaN

\* The minutes after midnight named by HH:mm, HH:mm:ss or HH:mm:ss.sss; NaN
\* when the text has another shape or a field is out of range.
ParseClock(s) ==
    LET hhmm ==
            /\ Len(s) >= 5
            /\ IsDigits(SubSeq(s, 1, 2)) /\ s[3] = ":" /\ IsDigits(SubSeq(s, 4, 5))
        secs ==
            \/ Len(s) = 5
            \/ Len(s) = 8 /\ s[6] = ":" /\ IsDigits(SubSeq(s, 7, 8))
                 /\ NumVal(SubSeq(s, 7, 8)) <= 59
            \/ Len(s) = 12 /\ s[6] = ":" /\ IsDigits(SubSeq(s, 7, 8))
                 /\ NumVal(SubSeq(s, 7, 8)) <= 59
                 /\ s[9] = "." /\ IsDigits(SubSeq(s, 10, 12))
        h == NumVal(SubSeq(s, 1, 2))
        mi == NumVal(SubSeq(s, 4, 5))
    IN  IF hhmm /\ secs /\ h <= 23 /\ mi <= 59 THEN h * 60 + mi ELSE NaN

\* The zone designator ending the time part: "Z", "+HH:mm", "-HH:mm" or none.
ZoneLen(s) ==
    IF Len(s) >= 1 /\ s[Len(s)] = "Z" THEN 1
    ELSE IF Len(s) >= 6 /\ s[Len(s) - 5] \in {"+", "-"} THEN 6
    ELSE 0

\* new Date(string) / Date.parse for the ISO-8601 forms: a date-only form is
\* UTC midnight, a date-time without designator is local time, and a
\* designator fixes the offset.  Any other text is an Invalid Date.
DateParse(s) ==
    IF s = Undefined THEN NaN
    ELSE
    LET ti == IndexOf(s, "T")
        dayNum == ParseDatePart(SplitFirst(s, "T"))
        tpart == SubSeq(s, ti + 1, Len(s))
        zl == ZoneLen(tpart)
        clock == ParseClock(SubSeq(tpart, 1, Len(tpart) - zl))
        zone == SubSeq(tpart, Len(tpart) - zl + 1, Len(tpart))
        off == ParseClock(SubSeq(zone, 2, 6))
        base == dayNum * MinutesPerDay + clock
    IN  IF dayNum = NaN THEN NaN
        ELSE IF ti = 0 THEN dayNum * MinutesPerDay
        ELSE IF clock = NaN THEN NaN
        ELSE IF zl = 0 THEN UTCTime(base)
        ELSE IF zl = 1 THEN base
        ELSE IF off = NaN THEN NaN
        ELSE IF zone[1] = "+" THEN base - off
        ELSE base + off

----------------------------------------------------------------------------
(* Inputs of the model *)

TzOffsets == {0 - 300, 0, 330}

ViewModes == {"Day", "Week", "Month", "Year", "Schedule"}

Directions == {"prev", "next"}

IsoDate(y, m, d) == Pad4(y) \o <<"-">> \o Pad2(m) \o <<"-">> \o Pad2(d)

HHmm(h, mi) == <<"T">> \o Pad2(h) \o <<":">> \o Pad2(mi)

\* The due-date texts a task can be given: by the task form (toISOString of
\* the picked day), by the voice parser, or by an imported file.
DueDateInputs ==
    { IsoDate(2024, 5, 10) \o HHmm(9, 0),
      IsoDate(2024, 5, 9) \o HHmm(23, 0),
      IsoDate(2024, 5, 10) \o HHmm(1, 0),
      IsoDate(2024, 5, 11) \o HHmm(0, 0) \o <<":", "0", "0", ".", "0", "0", "0", "Z">>,
      IsoDate(2024, 5, 10) \o HHmm(23, 0) \o <<"-", "0", "5", ":", "0", "0">>,
      IsoDate(2024, 5, 10) \o HHmm(25, 0),
      <<"s", "o", "o", "n">>,
      <<>>,
      Undefined }

\* A category name or colour token as the sequence of its characters.
Chars(str) ==
    CASE str = "Work" -> <<"W", "o", "r", "k">>
      [] str = "Personal" -> <<"P", "e", "r", "s", "o", "n", "a", "l">>
      [] str = "Academics" -> <<"A", "c", "a", "d", "e", "m", "i", "c", "s">>
      [] str = "Home" -> <<"H", "o", "m", "e">>
      [] str = " Home " -> <<" ", "H", "o", "m", "e", " ">>
      [] str = "  " -> <<" ", " ">>
      [] str = "" -> <<>>

INITIAL_CATEGORIES ==
    <<[id |-> "1", name |-> Chars("Work"), color |-> "bg-blue-500"],
      [id |-> "2", name |-> Chars("Personal"), color |-> "bg-green-500"],
      [id |-> "3", name |-> Chars("Academics"), color |-> "bg-purple-500"]>>

\* The colours of COLOR_OPTIONS the model picks from: Red and Blue.
COLOR_OPTIONS == <<"bg-red-500", "bg-blue-500">>

\* The texts typed into the name field of the category modal.
CategoryNameInputs ==
    {Chars("Home"), Chars(" Home "), Chars("Work"), Chars("  "), Chars("")}

\* The modal and form state of a freshly mounted App; editingTask is <<>>
\* for null and <<task>> for a task.
\* The reminder state once the component is mounted and its effect has run
\* for the first time: the check is scheduled unless there are no tasks.
MountedReminder ==
    [hasCheckedReminders |-> FALSE,
     timer |-> tasks /= <<>>,
     showReminderModal |-> FALSE,
     upcomingTasks |-> <<>>]

\* VoiceInput as mounted: its two state flags, mediaRecorderRef (0 for
\* null, else the number of the recorder it holds), the getUserMedia calls
\* awaited, the clicks that started one, and the recorders created so far.
InitialVoice ==
    [isRecording |-> FALSE,
     isProcessing |-> FALSE,
     mediaRecorderRef |-> 0,
     pending |-> 0,
     started |-> 0,
     recorders |-> <<>>]

\* No Schedule rendering has been recorded yet.
NothingListed == [tasks |-> <<>>, now |-> NaN, groups |-> {}]

InitialForm ==
    [isModalOpen |-> FALSE,
     editingTask |-> <<>>,
     formDueDate |-> Chars(""),
     isCategoryModalOpen |-> FALSE,
     newCategoryName |-> Chars(""),
     newCategoryColor |-> COLOR_OPTIONS[2],
     formCategory |-> INITIAL_CATEGORIES[1].name]

\* The days clicked in the Year view: <<monthIndex, d>>.
YearClicks == {<<0, 31>>, <<1, 29>>, <<4, 10>>, <<11, 31>>}

\* Of these, the click on the last day of the year.
YearEndClicks == {<<11, 31>>}

\* The local wall-clock time at which the page is opened: 2024-05-10 22:00.
StartLocal == MakeDay(2024, 4, 10) * MinutesPerDay + 22 * 60

\* The ambient clock advances in steps of this many minutes.
TickMinutes == 3 * 60

----------------------------------------------------------------------------
(* App: the task collection (src/App.tsx, lines 136-158) *)

\* The reminder effect re-run for a new `tasks` array: the cleanup clears
\* the pending timer, and the check is scheduled again unless it has been
\* done or the collection is empty.
ReminderEffect(newTasks) ==
    [reminder EXCEPT !.timer = ~reminder.hasCheckedReminders /\ newTasks /= <<>>]

\* The task handleAddTask builds from the fields it is given.
NewTask(newTask) ==
    [id |-> nextId + 1,
     status |-> "Todo",
     category |-> IF Truthy(newTask.category) THEN newTask.category
                  ELSE categories[1].name,
     dueDate |-> IF Truthy(newTask.dueDate) THEN newTask.dueDate ELSE <<>>]

handleAddTask(newTask) ==
    /\ nextId < MaxTasks
    /\ tasks' = <<NewTask(newTask)>> \o tasks
    /\ nextId' = nextId + 1
    /\ reminder' = ReminderEffect(tasks')
    /\ UNCHANGED <<currentDate, viewMode, now, tz, navCount, categories, fired, form, listed, draggedItem, voice>>

\* The collection handleUpdateTask leaves.
UpdatedTasks(updatedTask) ==
    [i \in 1..Len(tasks) |->
        IF tasks[i].id = updatedTask.id THEN updatedTask ELSE tasks[i]]

handleDeleteTask(id) ==
    /\ \E i \in 1..Len(tasks) : tasks[i].id = id
    /\ tasks' = SelectSeq(tasks, LAMBDA t : t.id /= id)
    /\ reminder' = ReminderEffect(tasks')
    /\ UNCHANGED <<nextId, currentDate, viewMode, now, tz, navCount, categories, fired, form, listed, draggedItem, voice>>

\* handleUpdateTask(updatedTask).
handleUpdateTask(updatedTask) ==
    /\ tasks' = UpdatedTasks(updatedTask)
    /\ reminder' = ReminderEffect(tasks')
    /\ UNCHANGED <<nextId, currentDate, viewMode, now, tz, navCount, categories, fired, form, listed, draggedItem, voice>>

\* The status a toggle leaves for Todo as well as for In Progress: Done
\* only from Todo.
ToggledStatusFromTodo(status) == IF status = "Todo" THEN "Done" ELSE "Todo"

\* t.status === TaskStatus.DONE ? TaskStatus.TODO : TaskStatus.DONE
ToggledStatus(status) == IF status = "Done" THEN "Todo" ELSE "Done"

handleToggleComplete(id) ==
    /\ \E i \in 1..Len(tasks) : tasks[i].id = id
    /\ tasks' = [i \in 1..Len(tasks) |->
                    IF tasks[i].id = id
                    THEN [tasks[i] EXCEPT !.status = ToggledStatus(tasks[i].status)]
                    ELSE tasks[i]]
    /\ reminder' = ReminderEffect(tasks')
    /\ UNCHANGED <<nextId, currentDate, viewMode, now, tz, navCount, categories, fired, form, listed, draggedItem, voice>>

\* handleDuplicate(task), task being a row of the list.
handleDuplicate(task) ==
    /\ nextId < MaxTasks
    /\ tasks' = <<[task EXCEPT !.id = nextId + 1]>> \o tasks
    /\ nextId' = nextId + 1
    /\ reminder' = ReminderEffect(tasks')
    /\ UNCHANGED <<currentDate, viewMode, now, tz, navCount, categories, fired, form, listed, draggedItem, voice>>

\* The tasks of the JSON file chosen for import: one task exported
\* earlier, in progress and due on 2024-05-11.
ImportFile ==
    <<[id |-> 101, status |-> "In Progress",
       category |-> Chars("Work"), dueDate |-> IsoDate(2024, 5, 11)]>>

\* handleImport with reader.onload: the file's tasks are put in front.
handleImport ==
    /\ Len(SelectSeq(tasks, LAMBDA t : t.id = ImportFile[1].id)) < MaxImports
    /\ tasks' = ImportFile \o tasks
    /\ reminder' = ReminderEffect(tasks')
    /\ UNCHANGED <<nextId, currentDate, viewMode, now, tz, navCount, categories, fired, form, listed, draggedItem, voice>>

\* onDragStart(e, item), item being a row of the list.
onDragStart(item) ==
    /\ draggedItem' = <<item>>
    /\ UNCHANGED <<tasks, nextId, currentDate, viewMode, now, tz, navCount, categories, fired, form, listed, reminder, voice>>

\* list.findIndex(t => t.id === id), 0-based; -1 when there is none.
FindIndex(list, id) ==
    IF \E i \in 1..Len(list) : list[i].id = id
    THEN (CHOOSE i \in 1..Len(list) :
              /\ list[i].id = id
              /\ \A j \in 1..(i - 1) : list[j].id /= id) - 1
    ELSE 0 - 1

\* list.splice(start, 1): a negative start counts from the end.
SpliceOut(list, start) ==
    LET from == IF start < 0 THEN (IF Len(list) + start < 0 THEN 0 ELSE Len(list) + start)
                ELSE (IF start > Len(list) THEN Len(list) ELSE start)
    IN  SubSeq(list, 1, from) \o SubSeq(list, from + 2, Len(list))

\* list.splice(start, 0, item).
SpliceIn(list, start, item) ==
    LET from == IF start > Len(list) THEN Len(list) ELSE start
    IN  SubSeq(list, 1, from) \o <<item>> \o SubSeq(list, from + 1, Len(list))

\* onDrop(e, dropIndex) on row dropIndex of the list.
onDrop(dropIndex) ==
    /\ draggedItem /= <<>>
    /\ dropIndex < Len(tasks)
    /\ LET dragIndex == FindIndex(tasks, draggedItem[1].id)
       IN  tasks' = SpliceIn(SpliceOut(tasks, dragIndex), dropIndex, draggedItem[1])
    /\ draggedItem' = <<>>
    /\ reminder' = ReminderEffect(tasks')
    /\ UNCHANGED <<nextId, currentDate, viewMode, now, tz, navCount, categories, fired, form, listed, voice>>

\* The ambient clock moves on.
Tick ==
    /\ now < UTCTime(StartLocal) + MaxTicks * TickMinutes
    /\ now' = now + TickMinutes
    /\ UNCHANGED <<tasks, nextId, currentDate, viewMode, tz, navCount, categories, fired, form, listed, draggedItem, reminder, voice>>

----------------------------------------------------------------------------
(* App: the category modal (src/App.tsx, lines 177-188, 569-664) *)

\* s.trim() for the blank the model types: the space.
Trim(s) ==
    LET solid == {i \in 1..Len(s) : s[i] /= " "}
    IN  IF solid = {} THEN <<>>
        ELSE SubSeq(s, CHOOSE i \in solid : \A j \in solid : i <= j,
                       CHOOSE i \in solid : \A j \in solid : j <= i)

\* The ids crypto.randomUUID() hands to new categories, in order.
CategoryUuids == <<"uuid-1", "uuid-2", "uuid-3", "uuid-4">>

\* The "+" button next to the category select of the task form.
openCategoryModal ==
    /\ ~form.isCategoryModalOpen
    /\ form' = [form EXCEPT !.isCategoryModalOpen = TRUE]
    /\ UNCHANGED <<tasks, nextId, currentDate, viewMode, now, tz, navCount,
                   categories, fired, listed, draggedItem, reminder, voice>>

\* The close and Cancel buttons of the category modal.
closeCategoryModal ==
    /\ form.isCategoryModalOpen
    /\ form' = [form EXCEPT !.isCategoryModalOpen = FALSE]
    /\ UNCHANGED <<tasks, nextId, currentDate, viewMode, now, tz, navCount,
                   categories, fired, listed, draggedItem, reminder, voice>>

setNewCategoryName(value) ==
    /\ form.isCategoryModalOpen
    /\ form' = [form EXCEPT !.newCategoryName = value]
    /\ UNCHANGED <<tasks, nextId, currentDate, viewMode, now, tz, navCount,
                   categories, fired, listed, draggedItem, reminder, voice>>

setNewCategoryColor(value) ==
    /\ form.isCategoryModalOpen
    /\ form' = [form EXCEPT !.newCategoryColor = value]
    /\ UNCHANGED <<tasks, nextId, currentDate, viewMode, now, tz, navCount,
                   categories, fired, listed, draggedItem, reminder, voice>>

handleAddCategory ==
    /\ form.isCategoryModalOpen
    /\ Trim(form.newCategoryName) /= <<>>
    /\ Len(categories) < Len(INITIAL_CATEGORIES) + MaxCategories
    /\ LET newCat == [id |-> CategoryUuids[Len(categories)
                                            - Len(INITIAL_CATEGORIES) + 1],
                      name |-> Trim(form.newCategoryName),
                      color |-> form.newCategoryColor]
       IN  /\ categories' = Append(categories, newCat)
           /\ form' = [form EXCEPT !.formCategory = newCat.name,
                                   !.newCategoryName = <<>>,
                                   !.isCategoryModalOpen = FALSE]
    /\ UNCHANGED <<tasks, nextId, currentDate, viewMode, now, tz, navCount,
                   fired, listed, draggedItem, reminder, voice>>

----------------------------------------------------------------------------
(* CalendarView: helpers (src/App.tsx, lines 751-775) *)

\* getCategoryColor reading cat.color without the optional chaining.
getCategoryColorUnchecked(catName) ==
    LET hits == {i \in 1..Len(categories) : categories[i].name = catName}
    IN  IF hits = {} THEN "TypeError"
        ELSE categories[CHOOSE i \in hits : \A j \in hits : i <= j].color

\* categories.find(c => c.name === catName)?.color || 'bg-gray-400'
getCategoryColor(catName) ==
    LET hits == {i \in 1..Len(categories) : categories[i].name = catName}
        color == IF hits = {} THEN ""
                 ELSE categories[CHOOSE i \in hits : \A j \in hits : i <= j].color
    IN  IF color = "" THEN "bg-gray-400" ELSE color

\* a === b on numbers: NaN equals nothing.
StrictEq(a, b) == a /= NaN /\ b /= NaN /\ a = b

isSameDate(date1, date2) ==
    /\ StrictEq(getDate(date1), getDate(date2))
    /\ StrictEq(getMonth(date1), getMonth(date2))
    /\ StrictEq(getFullYear(date1), getFullYear(date2))

\* MatchesDate comparing the local calendar day of the parsed due date.
MatchesLocalDay(task, date) ==
    IF ~Truthy(task.dueDate) THEN FALSE
    ELSE isSameDate(DateParse(task.dueDate), date)

\* The filter predicate of getTasksForDate.
MatchesDate(task, date) ==
    IF ~Truthy(task.dueDate) THEN FALSE
    ELSE LET targetISO == SplitFirst(toISOString(date), "T")
             taskISO == SplitFirst(task.dueDate, "T")
         IN  targetISO = taskISO

getTasksForDate(date) == SelectSeq(tasks, LAMBDA task : MatchesDate(task, date))

----------------------------------------------------------------------------
(* CalendarView: navigation (src/App.tsx, lines 793-816, 1153-1170) *)

\* NavigatedDate with the two directions exchanged.
NavigatedDateReversed(date, mode, offset) ==
    CASE mode = "Day" -> setDate(date, getDate(date) - offset)
      [] mode = "Week" -> setDate(date, getDate(date) - (offset * 7))
      [] mode = "Month" -> setMonth(date, getMonth(date) - offset)
      [] mode = "Year" -> setFullYear(date, getFullYear(date) - offset)
      [] mode = "Schedule" -> setMonth(date, getMonth(date) - offset)

\* The date navigate() stores for a view mode and an offset of +1 or -1.
NavigatedDate(date, mode, offset) ==
    CASE mode = "Day" -> setDate(date, getDate(date) + offset)
      [] mode = "Week" -> setDate(date, getDate(date) + (offset * 7))
      [] mode = "Month" -> setMonth(date, getMonth(date) + offset)
      [] mode = "Year" -> setFullYear(date, getFullYear(date) + offset)
      [] mode = "Schedule" -> setMonth(date, getMonth(date) + offset)

\* A button of the view switcher.
setViewMode(mode) ==
    /\ viewMode' = mode
    /\ UNCHANGED <<tasks, nextId, currentDate, now, tz, navCount, categories, fired, form, listed, draggedItem, reminder, voice>>

----------------------------------------------------------------------------
(* CalendarView: the Day, Week, Month and Year views (lines 846-1070) *)

renderDayView ==
    [tasksForDay |-> getTasksForDate(currentDate),
     isToday |-> isSameDate(now, currentDate)]

\* weekDays with the week starting on the Monday.
weekDaysFromMonday ==
    LET day == getDay(currentDate)
        startOfWeek == setDate(currentDate, getDate(currentDate) - day + 1)
        first == getDate(startOfWeek)
    IN  [k \in 1..7 |-> setDate(startOfWeek, first + (k - 1))]

\* The seven dates of the week view.
weekDays ==
    LET day == getDay(currentDate)
        startOfWeek == setDate(currentDate, getDate(currentDate) - day)
        first == getDate(startOfWeek)
    IN  [k \in 1..7 |-> setDate(startOfWeek, first + (k - 1))]

renderWeekView ==
    LET days == weekDays
    IN  [idx \in 1..7 |->
            [date |-> days[idx],
             isToday |-> isSameDate(now, days[idx]),
             dayTasks |-> getTasksForDate(days[idx])]]

\* A numbered day cell of the month grid and of the year view's mini grids.
DayCell(year, monthIndex, day) ==
    LET date == NewDateYMD(year, monthIndex, day)
    IN  [kind |-> "day", day |-> day, date |-> date,
         isToday |-> isSameDate(now, date),
         daysTasks |-> getTasksForDate(date)]

\* MonthCells with the last week filled up with empty cells.
MonthCellsPadded(year, monthIndex) ==
    LET daysInMonth == getDate(NewDateYMD(year, monthIndex + 1, 0))
        firstDay == getDay(NewDateYMD(year, monthIndex, 1))
        trailing == (7 - ((firstDay + daysInMonth) % 7)) % 7
    IN  [i \in 1..firstDay |-> [kind |-> "empty", key |-> i - 1]]
            \o [day \in 1..daysInMonth |-> DayCell(year, monthIndex, day)]
            \o [i \in 1..trailing |->
                    [kind |-> "empty", key |-> firstDay + daysInMonth + i - 1]]

\* The cells of one month: firstDay empty cells, then one cell per day.
MonthCells(year, monthIndex) ==
    LET daysInMonth == getDate(NewDateYMD(year, monthIndex + 1, 0))
        firstDay == getDay(NewDateYMD(year, monthIndex, 1))
    IN  [i \in 1..firstDay |-> [kind |-> "empty", key |-> i - 1]]
            \o [day \in 1..daysInMonth |-> DayCell(year, monthIndex, day)]

renderMonthView == MonthCells(getFullYear(currentDate), getMonth(currentDate))

\* hasTasks for a day without tasks as well.
hasTasksAlways(daysTasks) == Len(daysTasks) >= 0

\* getTasksForDate(date).length > 0
hasTasks(daysTasks) == Len(daysTasks) > 0

\* renderYearView with the week of the mini grids starting on the Monday.
renderYearViewFromMonday ==
    LET year == getFullYear(currentDate)
    IN  [k \in 1..12 |->
            LET cells == MonthCells(year, k - 1)
                pads == Len(SelectSeq(cells, LAMBDA c : c.kind = "empty"))
                shown == IF pads = 0
                         THEN [i \in 1..6 |-> [kind |-> "empty", key |-> i - 1]]
                                  \o cells
                         ELSE Tail(cells)
            IN  [i \in 1..Len(shown) |->
                    IF shown[i].kind = "empty" THEN shown[i]
                    ELSE [kind |-> "day", day |-> shown[i].day,
                          date |-> shown[i].date,
                          isToday |-> shown[i].isToday,
                          hasTasks |-> hasTasks(shown[i].daysTasks)]]]

\* The twelve mini grids; a day shows its dot when hasTasks.
renderYearView ==
    LET year == getFullYear(currentDate)
    IN  [k \in 1..12 |->
            LET cells == MonthCells(year, k - 1)
            IN  [i \in 1..Len(cells) |->
                    IF cells[i].kind = "empty" THEN cells[i]
                    ELSE [kind |-> "day", day |-> cells[i].day,
                          date |-> cells[i].date,
                          isToday |-> cells[i].isToday,
                          hasTasks |-> hasTasks(cells[i].daysTasks)]]]

\* YearDayClick without the switch to the Day view.
YearDayClickStays(monthIndex, d) ==
    /\ viewMode = "Year"
    /\ LET year == getFullYear(currentDate)
       IN  /\ d <= getDate(NewDateYMD(year, monthIndex + 1, 0))
           /\ currentDate' = NewDateYMD(year, monthIndex, d)
    /\ UNCHANGED <<tasks, nextId, viewMode, now, tz, navCount, categories, fired, form, listed, draggedItem, reminder, voice>>

\* Clicking day d of month monthIndex in the Year view.
YearDayClick(monthIndex, d) ==
    /\ viewMode = "Year"
    /\ LET year == getFullYear(currentDate)
       IN  /\ d <= getDate(NewDateYMD(year, monthIndex + 1, 0))
           /\ currentDate' = NewDateYMD(year, monthIndex, d)
    /\ viewMode' = "Day"
    /\ UNCHANGED <<tasks, nextId, now, tz, navCount, categories, fired, form, listed, draggedItem, reminder, voice>>

----------------------------------------------------------------------------
(* CalendarView: the Schedule view (src/App.tsx, lines 1073-1133) *)

\* CompareDue with its operands exchanged.
CompareDueDescending(a, b) ==
    LET ta == DateParse(a.dueDate)
        tb == DateParse(b.dueDate)
    IN  IF ta = NaN \/ tb = NaN THEN 0 ELSE tb - ta

\* new Date(a.dueDate).getTime() - new Date(b.dueDate).getTime() as the sort
\* reads it: negative, positive, or zero (NaN counts as zero).
CompareDue(a, b) ==
    LET ta == DateParse(a.dueDate)
        tb == DateParse(b.dueDate)
    IN  IF ta = NaN \/ tb = NaN THEN 0 ELSE ta - tb

\* Array.prototype.sort is stable: t goes behind every element it does not
\* precede.
RECURSIVE InsertSorted(_, _)
InsertSorted(sorted, t) ==
    IF sorted = <<>> THEN <<t>>
    ELSE IF CompareDue(sorted[Len(sorted)], t) <= 0 THEN Append(sorted, t)
    ELSE Append(InsertSorted(SubSeq(sorted, 1, Len(sorted) - 1), t),
                sorted[Len(sorted)])

RECURSIVE StableSort(_)
StableSort(seq) ==
    IF seq = <<>> THEN <<>>
    ELSE InsertSorted(StableSort(SubSeq(seq, 1, Len(seq) - 1)), seq[Len(seq)])

\* Whether the comparator orders seq consistently.  An Invalid Date compares
\* equal to everything, which is consistent only when all valid time values
\* of seq are equal.
ConsistentComparator(seq) ==
    \/ \A i \in 1..Len(seq) : DateParse(seq[i].dueDate) /= NaN
    \/ \A i, j \in 1..Len(seq) : CompareDue(seq[i], seq[j]) = 0

Reorderings(seq) ==
    { [k \in 1..Len(seq) |-> seq[p[k]]] :
        p \in { q \in [1..Len(seq) -> 1..Len(seq)] :
                  \A i, j \in 1..Len(seq) : q[i] = q[j] => i = j } }

\* sortedTasksOutcomes over the tasks due in the month of the anchor only.
sortedTasksOfMonth ==
    LET filtered == SelectSeq(tasks, LAMBDA t :
                        /\ Truthy(t.dueDate)
                        /\ StrictEq(getMonth(DateParse(t.dueDate)),
                                    getMonth(currentDate)))
    IN  IF ConsistentComparator(filtered) THEN {StableSort(filtered)}
        ELSE Reorderings(filtered)

\* sortedTasksOutcomes with the tasks due before today filtered out.
sortedTasksUpcoming ==
    LET filtered == SelectSeq(tasks, LAMBDA t :
                        /\ Truthy(t.dueDate)
                        /\ DateParse(t.dueDate) >= setHoursMidnight(now))
    IN  IF ConsistentComparator(filtered) THEN {StableSort(filtered)}
        ELSE Reorderings(filtered)

\* The orders [...tasks].filter(t => t.dueDate).sort(...) can produce: the
\* stable sort, or, with an inconsistent comparator, an order the engine
\* chooses.
sortedTasksOutcomes ==
    LET filtered == SelectSeq(tasks, LAMBDA t : Truthy(t.dueDate))
    IN  IF ConsistentComparator(filtered) THEN {StableSort(filtered)}
        ELSE Reorderings(filtered)

\* The key a task is grouped under.
GroupKey(t) == SplitFirst(t.dueDate, "T")

\* The keys of `grouped` in the order the forEach creates them.
RECURSIVE InsertionKeys(_)
InsertionKeys(sortedTasks) ==
    IF sortedTasks = <<>> THEN <<>>
    ELSE LET before == InsertionKeys(SubSeq(sortedTasks, 1, Len(sortedTasks) - 1))
             key == GroupKey(sortedTasks[Len(sortedTasks)])
         IN  IF \E i \in 1..Len(before) : before[i] = key THEN before
             ELSE Append(before, key)

\* A property name that is an array index: a canonical decimal numeral (up
\* to nine digits in the model).
IsArrayIndex(key) ==
    IsDigits(key) /\ Len(key) <= 9 /\ (Len(key) = 1 \/ key[1] /= "0")

RECURSIVE AscendingIndices(_)
AscendingIndices(keys) ==
    IF keys = <<>> THEN <<>>
    ELSE LET i == CHOOSE i \in 1..Len(keys) :
                    \A j \in 1..Len(keys) : NumVal(keys[i]) <= NumVal(keys[j])
         IN  <<keys[i]>> \o AscendingIndices(
                 SubSeq(keys, 1, i - 1) \o SubSeq(keys, i + 1, Len(keys)))

\* Object.keys(grouped): array-index names in ascending numeric order, then
\* the other names in the order of their creation.
ObjectKeys(insertionKeys) ==
    AscendingIndices(SelectSeq(insertionKeys, IsArrayIndex))
        \o SelectSeq(insertionKeys, LAMBDA key : ~IsArrayIndex(key))

\* new Date(y, m-1, d) for [y, m, d] = dateStr.split('-').map(Number).
DisplayDate(dateStr) ==
    LET parts == Split(dateStr, "-")
        y == Number(parts[1])
        m == IF Len(parts) >= 2 THEN Number(parts[2]) ELSE NaN
        d == IF Len(parts) >= 3 THEN Number(parts[3]) ELSE NaN
    IN  NewDateYMD(y, IF m = NaN THEN NaN ELSE m - 1, d)

\* The groups rendered for one outcome of the sort.
ScheduleGroups(sortedTasks) ==
    LET today == setHoursMidnight(now)
        dates == ObjectKeys(InsertionKeys(sortedTasks))
    IN  [g \in 1..Len(dates) |->
            LET dateStr == dates[g]
                displayDate == DisplayDate(dateStr)
            IN  [dateStr |-> dateStr,
                 displayDate |-> displayDate,
                 isPast |-> displayDate /= NaN /\ displayDate < today,
                 isToday |-> isSameDate(displayDate, now),
                 tasks |-> SelectSeq(sortedTasks,
                                     LAMBDA t : GroupKey(t) = dateStr)]]

renderScheduleView == { ScheduleGroups(sorted) : sorted \in sortedTasksOutcomes }

----------------------------------------------------------------------------
(* CalendarView: the header buttons (src/App.tsx, lines 793-816, 1153-1155) *)

\* What navigate() does to the component's state.
navigateClick(direction) ==
    /\ navCount < MaxNav
    /\ LET offset == IF direction = "next" THEN 1 ELSE 0 - 1
       IN  currentDate' = NavigatedDate(currentDate, viewMode, offset)
    /\ navCount' = navCount + 1
    /\ UNCHANGED <<tasks, nextId, viewMode, now, tz, categories, fired, form, draggedItem, reminder, voice>>

\* prev and next.
navigate(direction) == navigateClick(direction) /\ UNCHANGED listed

\* The day after the anchor shown, in place of the clock's date.
NextDayAnchor == setDate(currentDate, getDate(currentDate) + 1)

\* new Date(): the date the Today button stores.
TodayAnchor == now

\* What the Today button does to the component's state.
TodayClick ==
    /\ currentDate' = TodayAnchor
    /\ UNCHANGED <<tasks, nextId, viewMode, now, tz, navCount, categories, fired, form, draggedItem, reminder, voice>>

\* Today switching to the Day view as well, as a click on a Year-view day
\* does.
TodayDayView ==
    /\ currentDate' = TodayAnchor
    /\ viewMode' = "Day"
    /\ UNCHANGED <<tasks, nextId, now, tz, navCount, categories, fired, form, listed, draggedItem, reminder, voice>>

\* The Today button.
Today == TodayClick /\ UNCHANGED listed

\* What the Schedule view lists, with the task collection and the clock
\* reading it is rendered from; in the other view modes the record kept
\* from the last Schedule rendering.
Listing ==
    IF viewMode = "Schedule"
    THEN [tasks |-> tasks, now |-> now, groups |-> renderScheduleView]
    ELSE listed

\* prev and next, with what the Schedule view listed before the click kept
\* in `listed`.
navigateListed(direction) == navigateClick(direction) /\ listed' = Listing

\* The Today button, with what the Schedule view listed before the click
\* kept in `listed`.
TodayListed == TodayClick /\ listed' = Listing

----------------------------------------------------------------------------
(* The clicks of CalendarView and the callbacks App binds to them          *)
(* (src/App.tsx, lines 209-226, 388-393, 820-827, 867, 934, 975)           *)

\* openTaskModalForDate prefilling the local calendar day of the cell.
openTaskModalForDateLocal(f, prefillDate) ==
    [f EXCEPT !.editingTask = <<>>,
              !.formCategory = IF Len(categories) > 0 /\ categories[1].name /= <<>>
                               THEN categories[1].name ELSE Chars("Work"),
              !.formDueDate = IsoDate(getFullYear(prefillDate),
                                      getMonth(prefillDate) + 1,
                                      getDate(prefillDate)),
              !.isModalOpen = TRUE]

\* openTaskModal(undefined, prefillDate): the form for a new task.
openTaskModalForDate(f, prefillDate) ==
    [f EXCEPT !.editingTask = <<>>,
              !.formCategory = IF Len(categories) > 0 /\ categories[1].name /= <<>>
                               THEN categories[1].name ELSE Chars("Work"),
              !.formDueDate = SplitFirst(toISOString(prefillDate), "T"),
              !.isModalOpen = TRUE]

\* openTaskModal(task): the forms it can leave.  On a due date that does
\* not parse, toISOString() raises in the middle of the handler: the modal
\* stays closed and the form keeps its due date, with the state updates
\* queued before the raise either applied or dropped.
openTaskModalForTask(f, task) ==
    LET started == [f EXCEPT !.editingTask = <<task>>,
                             !.formCategory = task.category]
    IN  IF ~Truthy(task.dueDate)
        THEN {[started EXCEPT !.formDueDate = <<>>, !.isModalOpen = TRUE]}
        ELSE IF DateParse(task.dueDate) = NaN THEN {started, f}
        ELSE {[started EXCEPT
                  !.formDueDate = SplitFirst(toISOString(DateParse(task.dueDate)), "T"),
                  !.isModalOpen = TRUE]}

onSelectDateCall(date) == [cb |-> "onSelectDate", date |-> date]

onSelectTaskCall(task) == [cb |-> "onSelectTask", task |-> task]

\* The forms App is left with after the callbacks of one click have run.
RECURSIVE RunCallbacks(_, _)
RunCallbacks(f, calls) ==
    IF calls = <<>> THEN {f}
    ELSE LET call == Head(calls)
             after == IF call.cb = "onSelectDate"
                      THEN {openTaskModalForDate(f, call.date)}
                      ELSE openTaskModalForTask(f, call.task)
         IN  UNION {RunCallbacks(g, Tail(calls)) : g \in after}

\* A click on the calendar, invoking the given callbacks in order.
Click(calls) ==
    /\ ~form.isModalOpen
    /\ fired' = calls
    /\ form' \in RunCallbacks(form, calls)
    /\ UNCHANGED <<tasks, nextId, currentDate, viewMode, now, tz, navCount,
                   categories, listed, draggedItem, reminder, voice>>

\* The chip's onClick letting the click bubble to the enclosing cell.
TaskChipCallsBubbling(task, outer) == <<onSelectTaskCall(task)>> \o outer

\* The callbacks a click on a task chip invokes; outer is what the onClick
\* of the enclosing cell invokes.  e.stopPropagation() keeps the click from
\* the cell.
TaskChipCalls(task, outer) == <<onSelectTaskCall(task)>>

\* The Add Task button of the Day view.
DayAddTaskClick ==
    /\ viewMode = "Day"
    /\ Click(<<onSelectDateCall(currentDate)>>)

\* The body of column idx of the Week view.
WeekCellClick(idx) ==
    /\ viewMode = "Week"
    /\ Click(<<onSelectDateCall(weekDays[idx])>>)

\* The cell of the given day of the Month view.
MonthCellClick(day) ==
    /\ viewMode = "Month"
    /\ LET year == getFullYear(currentDate)
           monthIndex == getMonth(currentDate)
       IN  /\ day <= getDate(NewDateYMD(year, monthIndex + 1, 0))
           /\ Click(<<onSelectDateCall(NewDateYMD(year, monthIndex, day))>>)

\* The task chips the active view renders, each with the callbacks of the
\* cell around it.
ChipsShown ==
    CASE viewMode = "Day" ->
            LET list == renderDayView.tasksForDay
            IN  {[task |-> list[k], outer |-> <<>>] : k \in 1..Len(list)}
      [] viewMode = "Week" ->
            LET week == renderWeekView
            IN  UNION { LET cell == week[idx]
                        IN  {[task |-> cell.dayTasks[k],
                              outer |-> <<onSelectDateCall(cell.date)>>] :
                                k \in 1..Len(cell.dayTasks)} : idx \in 1..7 }
      [] viewMode = "Month" ->
            LET cells == renderMonthView
            IN  UNION { LET cell == cells[i]
                        IN  IF cell.kind = "empty" THEN {}
                            ELSE {[task |-> cell.daysTasks[k],
                                   outer |-> <<onSelectDateCall(cell.date)>>] :
                                     k \in 1..Len(cell.daysTasks)} :
                        i \in 1..Len(cells) }
      [] viewMode = "Schedule" ->
            UNION { UNION { {[task |-> groups[g].tasks[k], outer |-> <<>>] :
                               k \in 1..Len(groups[g].tasks)} :
                            g \in 1..Len(groups) } :
                    groups \in renderScheduleView }
      [] OTHER -> {}

\* A click on a task chip.
TaskChipClick ==
    \E chip \in ChipsShown : Click(TaskChipCalls(chip.task, chip.outer))

\* The close and Cancel buttons of the task modal.
closeTaskModal ==
    /\ form.isModalOpen
    /\ form' = [form EXCEPT !.isModalOpen = FALSE]
    /\ UNCHANGED <<tasks, nextId, currentDate, viewMode, now, tz, navCount,
                   categories, fired, listed, draggedItem, reminder, voice>>

----------------------------------------------------------------------------
(* App: the task form (src/App.tsx, lines 152-154, 485, 543, 586-607) *)

\* The values the date field of the form is set to by hand.
FormDueDateInputs == {IsoDate(2024, 5, 12), <<>>}

\* onChange of the date field.
setFormDueDate(value) ==
    /\ form.isModalOpen
    /\ form' = [form EXCEPT !.formDueDate = value]
    /\ UNCHANGED <<tasks, nextId, currentDate, viewMode, now, tz, navCount,
                   categories, fired, listed, draggedItem, reminder, voice>>

\* The edit button of row i of the task list: openTaskModal(task).
editTaskClick(i) ==
    /\ ~form.isModalOpen
    /\ i <= Len(tasks)
    /\ fired' = <<>>
    /\ form' \in openTaskModalForTask(form, tasks[i])
    /\ UNCHANGED <<tasks, nextId, currentDate, viewMode, now, tz, navCount,
                   categories, listed, draggedItem, reminder, voice>>

\* The dueDate the save button hands on: formDueDate ? new
\* Date(formDueDate).toISOString() : undefined.
SavedDueDate(formDueDate) ==
    IF Truthy(formDueDate) THEN toISOString(DateParse(formDueDate))
    ELSE Undefined

\* The save button of the task modal, pressed with a title typed in (with
\* a blank title the handler returns at once).  toISOString() raises on a
\* date field that does not parse, before any state update.
saveTaskModal ==
    /\ form.isModalOpen
    /\ SavedDueDate(form.formDueDate) /= RangeError
    /\ IF form.editingTask /= <<>>
       THEN /\ tasks' = UpdatedTasks(
                           [form.editingTask[1] EXCEPT
                               !.category = form.formCategory,
                               !.dueDate = SavedDueDate(form.formDueDate)])
            /\ UNCHANGED nextId
       ELSE /\ nextId < MaxTasks
            /\ tasks' = <<NewTask([category |-> form.formCategory,
                                    dueDate |-> SavedDueDate(form.formDueDate)])>>
                           \o tasks
            /\ nextId' = nextId + 1
    /\ form' = [form EXCEPT !.isModalOpen = FALSE]
    /\ reminder' = ReminderEffect(tasks')
    /\ UNCHANGED <<currentDate, viewMode, now, tz, navCount, categories, fired,
                   listed, draggedItem, voice>>

----------------------------------------------------------------------------
(* App: the reminder of tasks due tomorrow (src/App.tsx, lines 108-133) *)

\* s.startsWith(prefix)
StartsWith(s, prefix) ==
    Len(s) >= Len(prefix) /\ SubSeq(s, 1, Len(prefix)) = prefix

\* The text the check compares due dates with: the clock moved on by one
\* local day, printed in UTC and cut at the "T".
tomorrowStr == SplitFirst(toISOString(setDate(now, getDate(now) + 1)), "T")

\* The tasks the check selects.
dueTomorrow ==
    SelectSeq(tasks, LAMBDA t : /\ Truthy(t.dueDate)
                                /\ t.status /= "Done"
                                /\ StartsWith(t.dueDate, tomorrowStr))

\* The timer of the reminder effect fires, one second after the render
\* that scheduled it; every later change of `tasks` has cleared and
\* rescheduled it, so the `tasks` it closes over are the current ones.
checkUpcomingTasks ==
    /\ reminder.timer
    /\ reminder' =
           [hasCheckedReminders |-> TRUE,
            timer |-> FALSE,
            showReminderModal |-> reminder.showReminderModal \/ dueTomorrow /= <<>>,
            upcomingTasks |-> IF dueTomorrow /= <<>> THEN dueTomorrow
                              ELSE reminder.upcomingTasks]
    /\ UNCHANGED <<tasks, nextId, currentDate, viewMode, now, tz, navCount, categories, fired, form, listed, draggedItem, voice>>

\* Either button that closes the reminder modal.
closeReminderModal ==
    /\ reminder.showReminderModal
    /\ reminder' = [reminder EXCEPT !.showReminderModal = FALSE]
    /\ UNCHANGED <<tasks, nextId, currentDate, viewMode, now, tz, navCount, categories, fired, form, listed, draggedItem, voice>>

----------------------------------------------------------------------------
(* VoiceInput (src/components/VoiceInput.tsx, lines 10-72) *)

\* The texts transcribeAudio returns: none (result.text || ""), one of
\* five characters and a longer one.
Transcripts ==
    {<<>>, <<"m", "i", "l", "k", "!">>,
     <<"b", "u", "y", " ", "m", "i", "l", "k">>}

\* The task fields parseTaskFromText returns.
ParsedTasks ==
    {[dueDate |-> Undefined, category |-> Undefined],
     [dueDate |-> IsoDate(2024, 5, 11), category |-> Chars("Home")]}

\* A click on the button while it shows "start" and is enabled: the
\* handler runs up to `await getUserMedia(...)`.
startRecording ==
    /\ ~voice.isRecording
    /\ ~voice.isProcessing
    /\ voice.started < MaxRecordings
    /\ voice' = [voice EXCEPT !.pending = @ + 1, !.started = @ + 1]
    /\ UNCHANGED <<tasks, nextId, reminder, currentDate, viewMode, now, tz, navCount, categories, fired, form, listed, draggedItem>>

\* One awaited getUserMedia call settles.  Granted: a recorder is created
\* on the stream, stored in mediaRecorderRef and started, and isRecording
\* is set.  Refused: the catch block alerts and nothing else changes.
getUserMediaSettles ==
    /\ voice.pending > 0
    /\ \/ voice' = [voice EXCEPT
                        !.pending = @ - 1,
                        !.recorders = Append(@, [phase |-> "recording",
                                                 tracksLive |-> TRUE,
                                                 text |-> <<>>,
                                                 threw |-> FALSE,
                                                 calls |-> <<>>]),
                        !.mediaRecorderRef = Len(voice.recorders) + 1,
                        !.isRecording = TRUE]
       \/ voice' = [voice EXCEPT !.pending = @ - 1]
    /\ UNCHANGED <<tasks, nextId, reminder, currentDate, viewMode, now, tz, navCount, categories, fired, form, listed, draggedItem>>

\* A click on the button while it shows "stop" and is enabled: stop() makes
\* the recorder inactive and queues its stop event.
stopRecording ==
    /\ voice.isRecording
    /\ ~voice.isProcessing
    /\ voice.mediaRecorderRef /= 0
    /\ voice.recorders[voice.mediaRecorderRef].phase = "recording"
    /\ voice' = [voice EXCEPT
                     !.recorders[voice.mediaRecorderRef].phase = "inactive",
                     !.isRecording = FALSE]
    /\ UNCHANGED <<tasks, nextId, reminder, currentDate, viewMode, now, tz, navCount, categories, fired, form, listed, draggedItem>>

\* The stop event of recorder r is delivered: onstop runs up to `await
\* transcribeAudio(...)`.
onstop(r) ==
    /\ r <= Len(voice.recorders)
    /\ voice.recorders[r].phase = "inactive"
    /\ voice' = [voice EXCEPT !.isProcessing = TRUE,
                              !.recorders[r].phase = "transcribing"]
    /\ UNCHANGED <<tasks, nextId, reminder, currentDate, viewMode, now, tz, navCount, categories, fired, form, listed, draggedItem>>

\* onTaskParsed && text.length > 5, with the onTaskParsed App passes.
ShouldParseAnyText(text) == Len(text) >= 0

ShouldParse(text) == Len(text) > 5

\* The finally block of onstop for recorder r, tracks left running.
FinallyLeavesTracks(v, r) ==
    [v EXCEPT !.isProcessing = FALSE, !.recorders[r].phase = "done"]

\* The finally block of onstop for recorder r.
Finally(v, r) ==
    [v EXCEPT !.isProcessing = FALSE,
              !.recorders[r].tracksLive = FALSE,
              !.recorders[r].phase = "done"]

\* transcribeAudio settles for recorder r.  Fulfilled: onTranscription is
\* called, and onstop goes on to `await parseTaskFromText(...)` or to its
\* finally block.  Rejected (no API key, a failed read or request): catch,
\* then finally.
transcribeAudioSettles(r) ==
    /\ r <= Len(voice.recorders)
    /\ voice.recorders[r].phase = "transcribing"
    /\ \/ \E text \in Transcripts :
              LET heard == [voice EXCEPT
                                !.recorders[r].text = <<text>>,
                                !.recorders[r].calls =
                                    Append(@, [cb |-> "onTranscription",
                                               arg |-> text])]
              IN  voice' = IF ShouldParse(text)
                           THEN [heard EXCEPT !.recorders[r].phase = "parsing"]
                           ELSE Finally(heard, r)
       \/ voice' = Finally([voice EXCEPT !.recorders[r].threw = TRUE], r)
    /\ UNCHANGED <<tasks, nextId, reminder, currentDate, viewMode, now, tz, navCount, categories, fired, form, listed, draggedItem>>

\* parseTaskFromText settles for recorder r.  Fulfilled: onTaskParsed, which
\* is handleVoiceParsed and so handleAddTask, then finally.  Rejected (no
\* API key, a failed request, JSON.parse): catch, then finally.
parseTaskFromTextSettles(r) ==
    /\ r <= Len(voice.recorders)
    /\ voice.recorders[r].phase = "parsing"
    /\ \/ \E taskData \in ParsedTasks :
              /\ voice' = Finally([voice EXCEPT
                                       !.recorders[r].calls =
                                           Append(@, [cb |-> "onTaskParsed",
                                                      arg |-> taskData])], r)
              /\ tasks' = <<NewTask(taskData)>> \o tasks
              /\ nextId' = nextId + 1
              /\ reminder' = ReminderEffect(tasks')
       \/ /\ voice' = Finally([voice EXCEPT !.recorders[r].threw = TRUE], r)
          /\ UNCHANGED <<tasks, nextId, reminder>>
    /\ UNCHANGED <<currentDate, viewMode, now, tz, navCount, categories, fired, form, listed, draggedItem>>

----------------------------------------------------------------------------
(* Specifications *)

\* App with an empty stored collection; CalendarView freshly mounted.
Init ==
    /\ tasks = <<>>
    /\ nextId = 0
    /\ tz \in TzOffsets
    /\ now = UTCTime(StartLocal)
    /\ currentDate = now
    /\ viewMode = "Month"
    /\ navCount = 0
    /\ categories = INITIAL_CATEGORIES
    /\ fired = <<>>
    /\ form = InitialForm
    /\ listed = NothingListed
    /\ draggedItem = <<>>
    /\ reminder = MountedReminder
    /\ voice = InitialVoice

\* The task collection under add and delete.
Next ==
    \/ \E d \in DueDateInputs :
           handleAddTask([dueDate |-> d, category |-> Undefined])
    \/ \E i \in 1..MaxTasks : handleDeleteTask(i)

Spec == Init /\ [][Next]_vars

\* CalendarView under its header buttons and day clicks, mounted over the
\* empty collection.
NextCalendar ==
    \/ \E direction \in Directions : navigate(direction)
    \/ Today
    \/ \E mode \in ViewModes : setViewMode(mode)
    \/ \E c \in YearClicks : YearDayClick(c[1], c[2])
    \/ Tick

SpecCalendar == Init /\ [][NextCalendar]_vars

\* The task collections CalendarView is mounted over when the views are
\* compared: the empty one, every single task, and every task in front of
\* one due 2024-05-10T09:00.
CalendarTaskProps ==
    {<<>>}
        \cup { <<[id |-> 1, status |-> "Todo", category |-> Chars("Work"), dueDate |-> d]>> :
                 d \in DueDateInputs }
        \cup { <<[id |-> 2, status |-> "Todo", category |-> Chars("Home"), dueDate |-> d],
                 [id |-> 1, status |-> "Todo", category |-> Chars("Work"),
                  dueDate |-> IsoDate(2024, 5, 10) \o HHmm(9, 0)]>> :
                 d \in DueDateInputs }

InitViews ==
    /\ tasks \in CalendarTaskProps
    /\ nextId = Len(tasks)
    /\ tz \in TzOffsets
    /\ now = UTCTime(StartLocal)
    /\ currentDate = now
    /\ viewMode = "Month"
    /\ navCount = 0
    /\ categories = INITIAL_CATEGORIES
    /\ fired = <<>>
    /\ form = InitialForm
    /\ listed = NothingListed
    /\ draggedItem = <<>>
    /\ reminder = MountedReminder
    /\ voice = InitialVoice

\* The five views of a mounted CalendarView around the current date.
NextViews ==
    \/ \E mode \in ViewModes : setViewMode(mode)
    \/ Today
    \/ \E c \in YearClicks \ YearEndClicks : YearDayClick(c[1], c[2])
    \/ Tick

SpecViews == InitViews /\ [][NextViews]_vars

\* App's category collection under the category modal.
NextCategories ==
    \/ openCategoryModal
    \/ closeCategoryModal
    \/ \E value \in CategoryNameInputs : setNewCategoryName(value)
    \/ \E k \in 1..Len(COLOR_OPTIONS) : setNewCategoryColor(COLOR_OPTIONS[k])
    \/ handleAddCategory

SpecCategories == Init /\ [][NextCategories]_vars

\* The task collections CalendarView is mounted over when it is clicked.
ClickTaskProps ==
    { <<[id |-> 2, status |-> "Todo", category |-> Chars("Home"), dueDate |-> d],
        [id |-> 1, status |-> "Todo", category |-> Chars("Work"),
         dueDate |-> IsoDate(2024, 5, 10) \o HHmm(9, 0)]>> :
        d \in {IsoDate(2024, 5, 10) \o HHmm(1, 0),
               IsoDate(2024, 5, 9) \o HHmm(23, 0),
               <<"s", "o", "o", "n">>, <<>>} }

InitClicks ==
    /\ tasks \in ClickTaskProps
    /\ nextId = Len(tasks)
    /\ tz \in TzOffsets
    /\ now = UTCTime(StartLocal)
    /\ currentDate = now
    /\ viewMode = "Month"
    /\ navCount = 0
    /\ categories = INITIAL_CATEGORIES
    /\ fired = <<>>
    /\ form = InitialForm
    /\ listed = NothingListed
    /\ draggedItem = <<>>
    /\ reminder = MountedReminder
    /\ voice = InitialVoice

\* The clicks on the cells and chips of a mounted CalendarView, with the
\* task modal closed again after each.
NextClicks ==
    \/ \E mode \in ViewModes : ~form.isModalOpen /\ setViewMode(mode)
    \/ DayAddTaskClick
    \/ \E idx \in 1..7 : WeekCellClick(idx)
    \/ \E day \in 1..31 : MonthCellClick(day)
    \/ TaskChipClick
    \/ closeTaskModal

SpecClicks == InitClicks /\ [][NextClicks]_vars

\* The header buttons and the view switcher of a CalendarView mounted over
\* a task collection.
NextSchedule ==
    \/ \E direction \in Directions : navigateListed(direction)
    \/ TodayListed
    \/ \E mode \in ViewModes : setViewMode(mode)
    \/ Tick

SpecSchedule == InitClicks /\ [][NextSchedule]_vars

\* The task collections the task form is used on: a task of each form of
\* due date (date-only, UTC, local time, with an offset, unparsable, none)
\* in front of one due 2024-05-10T09:00.
FormTaskProps ==
    { <<[id |-> 2, status |-> "Todo", category |-> Chars("Home"), dueDate |-> d],
        [id |-> 1, status |-> "Todo", category |-> Chars("Work"),
         dueDate |-> IsoDate(2024, 5, 10) \o HHmm(9, 0)]>> :
        d \in {IsoDate(2024, 5, 10),
               IsoDate(2024, 5, 11) \o HHmm(0, 0)
                   \o <<":", "0", "0", ".", "0", "0", "0", "Z">>,
               IsoDate(2024, 5, 9) \o HHmm(23, 0),
               IsoDate(2024, 5, 10) \o HHmm(23, 0)
                   \o <<"-", "0", "5", ":", "0", "0">>,
               <<"s", "o", "o", "n">>, <<>>} }

InitForm ==
    /\ tasks \in FormTaskProps
    /\ nextId = Len(tasks)
    /\ tz \in TzOffsets
    /\ now = UTCTime(StartLocal)
    /\ currentDate = now
    /\ viewMode = "Month"
    /\ navCount = 0
    /\ categories = INITIAL_CATEGORIES
    /\ fired = <<>>
    /\ form = InitialForm
    /\ listed = NothingListed
    /\ draggedItem = <<>>
    /\ reminder = MountedReminder
    /\ voice = InitialVoice

\* The days of the Month view clicked to create a task.
FormCellDays == {1, 10, 31}

\* The task form opened from a day cell or from the task list, filled in
\* and saved or closed.
NextForm ==
    \/ \E mode \in {"Day", "Week", "Month"} :
           ~form.isModalOpen /\ setViewMode(mode)
    \/ DayAddTaskClick
    \/ \E idx \in 1..7 : WeekCellClick(idx)
    \/ \E day \in FormCellDays : MonthCellClick(day)
    \/ \E i \in 1..MaxTasks : editTaskClick(i)
    \/ \E value \in FormDueDateInputs : setFormDueDate(value)
    \/ saveTaskModal
    \/ closeTaskModal

SpecForm == InitForm /\ [][NextForm]_vars

\* The ids a task of the collection can carry.
TaskIds == (1..MaxTasks) \cup {ImportFile[1].id}

\* The task list under its row buttons and the import button, starting
\* from the empty stored collection.
NextTasks ==
    \/ handleAddTask([dueDate |-> Undefined, category |-> Undefined])
    \/ \E i \in 1..Len(tasks) : handleDuplicate(tasks[i])
    \/ \E id \in TaskIds : handleToggleComplete(id)
    \/ \E id \in TaskIds : handleDeleteTask(id)
    \/ handleImport

SpecTasks == Init /\ [][NextTasks]_vars

\* The task list under its row buttons and drag and drop, starting from
\* the empty stored collection.
NextDrag ==
    \/ handleAddTask([dueDate |-> Undefined, category |-> Undefined])
    \/ \E i \in 1..Len(tasks) :
           handleUpdateTask([tasks[i] EXCEPT !.category = Chars("Home")])
    \/ \E id \in 1..MaxTasks : handleToggleComplete(id)
    \/ \E id \in 1..MaxTasks : handleDeleteTask(id)
    \/ \E i \in 1..Len(tasks) : onDragStart(tasks[i])
    \/ \E dropIndex \in 0..(MaxTasks - 1) : onDrop(dropIndex)

SpecDrag == Init /\ [][NextDrag]_vars

\* The due dates the task form saves for the reminder scenarios: the day
\* after the page is opened, the day after that, and none.
ReminderDueDates ==
    {SavedDueDate(IsoDate(2024, 5, 11)), SavedDueDate(IsoDate(2024, 5, 12)),
     Undefined}

\* The collections found in storage when the page is opened.
StoredTasks ==
    {<<>>,
     <<[id |-> 1, status |-> "Todo", category |-> INITIAL_CATEGORIES[1].name,
        dueDate |-> SavedDueDate(IsoDate(2024, 5, 11))]>>,
     <<[id |-> 2, status |-> "Done", category |-> INITIAL_CATEGORIES[1].name,
        dueDate |-> SavedDueDate(IsoDate(2024, 5, 12))],
       [id |-> 1, status |-> "Todo", category |-> INITIAL_CATEGORIES[1].name,
        dueDate |-> SavedDueDate(IsoDate(2024, 5, 12))]>>}

\* App opened over a stored collection.
InitReminder ==
    /\ tasks \in StoredTasks
    /\ nextId = Len(tasks)
    /\ tz \in TzOffsets
    /\ now = UTCTime(StartLocal)
    /\ currentDate = now
    /\ viewMode = "Month"
    /\ navCount = 0
    /\ categories = INITIAL_CATEGORIES
    /\ fired = <<>>
    /\ form = InitialForm
    /\ listed = NothingListed
    /\ draggedItem = <<>>
    /\ reminder = MountedReminder
    /\ voice = InitialVoice

\* The reminder under task changes, the passing of time and its timer.
NextReminder ==
    \/ \E d \in ReminderDueDates :
           handleAddTask([dueDate |-> d, category |-> Undefined])
    \/ \E id \in 1..MaxTasks : handleToggleComplete(id)
    \/ \E id \in 1..MaxTasks : handleDeleteTask(id)
    \/ Tick
    \/ checkUpcomingTasks
    \/ closeReminderModal

SpecReminder == InitReminder /\ [][NextReminder]_vars

\* VoiceInput under clicks on its button, the microphone permission, the
\* stop events and the two service calls.
NextVoice ==
    \/ startRecording
    \/ getUserMediaSettles
    \/ stopRecording
    \/ \E r \in 1..MaxRecordings : onstop(r)
    \/ \E r \in 1..MaxRecordings : transcribeAudioSettles(r)
    \/ \E r \in 1..MaxRecordings : parseTaskFromTextSettles(r)

SpecVoice == Init /\ [][NextVoice]_vars

\* The same, where every queued stop event is delivered and every service
\* call settles.
SpecVoiceFair ==
    /\ SpecVoice
    /\ \A r \in 1..MaxRecordings :
           /\ WF_vars(onstop(r))
           /\ WF_vars(transcribeAudioSettles(r))
           /\ WF_vars(parseTaskFromTextSettles(r))

----------------------------------------------------------------------------
(* Vocabulary of the properties *)

\* The text of s in front of its time portion: the longest prefix without
\* a "T".
DatePortion(s) ==
    LET n == CHOOSE k \in 0..Len(s) :
                 /\ k < Len(s) => s[k + 1] = "T"
                 /\ \A i \in 1..k : s[i] /= "T"
    IN  SubSeq(s, 1, n)

\* Position of the task with the given id in the collection.
PositionOf(id) == CHOOSE i \in 1..Len(tasks) : tasks[i].id = id

\* The tasks of the collection that carry a due date.
DatedTasks == SelectSeq(tasks, LAMBDA t : t.dueDate /= Undefined /\ Len(t.dueDate) > 0)

\* A due date written as a local date-time YYYY-MM-DDTHH:mm with every
\* field in range, and the minute it names on the local wall clock.
IsLocalDateTime(s) ==
    /\ Len(s) = 16 /\ s[11] = "T"
    /\ ParseDatePart(SubSeq(s, 1, 10)) /= NaN
    /\ ParseClock(SubSeq(s, 12, 16)) /= NaN

WallMinute(s) ==
    ParseDatePart(SubSeq(s, 1, 10)) * MinutesPerDay + ParseClock(SubSeq(s, 12, 16))

\* Whether date1 falls on a local calendar day strictly before date2's.
DayBefore(date1, date2) ==
    /\ date1 /= NaN /\ date2 /= NaN
    /\ LET y1 == getFullYear(date1)
           y2 == getFullYear(date2)
           m1 == getMonth(date1)
           m2 == getMonth(date2)
       IN  \/ y1 < y2
           \/ y1 = y2 /\ m1 < m2
           \/ y1 = y2 /\ m1 = m2 /\ getDate(date1) < getDate(date2)

\* The three due dates of the schedule example, in input order.
ExampleTasks ==
    /\ Len(tasks) = 3
    /\ tasks[1].dueDate = IsoDate(2024, 5, 10) \o HHmm(9, 0)
    /\ tasks[2].dueDate = IsoDate(2024, 5, 9) \o HHmm(23, 0)
    /\ tasks[3].dueDate = IsoDate(2024, 5, 10) \o HHmm(1, 0)

\* One group per distinct bucket key of the dated tasks.
OneGroupPerKey(groups) ==
    /\ \A g, h \in 1..Len(groups) : groups[g].dateStr = groups[h].dateStr => g = h
    /\ {groups[g].dateStr : g \in 1..Len(groups)}
         = {DatePortion(DatedTasks[i].dueDate) : i \in 1..Len(DatedTasks)}
    /\ \A g \in 1..Len(groups) :
         {groups[g].tasks[k] : k \in 1..Len(groups[g].tasks)}
           = {DatedTasks[i] : i \in {j \in 1..Len(DatedTasks) :
                 DatePortion(DatedTasks[j].dueDate) = groups[g].dateStr}}

\* Groups in ascending order of the day their key names.
GroupsAscending(groups) ==
    \A g, h \in 1..Len(groups) :
        (g < h /\ ParseDatePart(groups[g].dateStr) /= NaN
               /\ ParseDatePart(groups[h].dateStr) /= NaN)
            => ParseDatePart(groups[g].dateStr) < ParseDatePart(groups[h].dateStr)

----------------------------------------------------------------------------
(* C6 *)

----------------------------------------------------------------------------
(* C7 *)

----------------------------------------------------------------------------
(* Vocabulary of the cell views *)

\* The UTC calendar day of a Date as YYYY-MM-DD: the text in front of the
\* time portion of its ISO form.
UtcDayText(date) ==
    LET d == date \div MinutesPerDay
    IN  IsoDate(YearFromDay(d), MonthFromDay(d) + 1, DateFromDay(d))

\* The local calendar day a cell displays, as YYYY-MM-DD.
LocalDayText(date) ==
    LET d == (date + tz) \div MinutesPerDay
    IN  IsoDate(YearFromDay(d), MonthFromDay(d) + 1, DateFromDay(d))

HasDueDate(t) == t.dueDate /= Undefined /\ Len(t.dueDate) > 0

\* The day cells the active view shows with their task lists.
DayCellsShown ==
    CASE viewMode = "Day" ->
            {[date |-> currentDate, tasks |-> renderDayView.tasksForDay]}
      [] viewMode = "Week" ->
            LET w == renderWeekView
            IN  {[date |-> w[i].date, tasks |-> w[i].dayTasks] : i \in 1..7}
      [] viewMode = "Month" ->
            LET cells == renderMonthView
            IN  {[date |-> cells[i].date, tasks |-> cells[i].daysTasks] :
                    i \in {j \in 1..Len(cells) : cells[j].kind = "day"}}
      [] OTHER -> {}

\* The day cells the Year view shows with their has-tasks flags.
YearCellsShown ==
    IF viewMode /= "Year" THEN {}
    ELSE LET grids == renderYearView
         IN  UNION { LET grid == grids[k]
                     IN  {cell \in {grid[i] : i \in 1..Len(grid)} :
                             cell.kind = "day"} :
                     k \in 1..12 }

\* The groups the Schedule view shows, for every order the sort can leave.
ScheduleShown == IF viewMode = "Schedule" THEN renderScheduleView ELSE {}

Holds(list, t) == \E k \in 1..Len(list) : list[k] = t

----------------------------------------------------------------------------
(* C1 *)

\* C1: getTasksForDate(D) returns, in collection order, exactly the tasks
\* that have a due date whose text in front of the time portion equals the
\* YYYY-MM-DD in front of the time portion of D's ISO form.
C1_BucketConsistency ==
    /\ \A cell \in DayCellsShown :
         LET key == UtcDayText(cell.date)
         IN  cell.tasks = SelectSeq(tasks, LAMBDA t :
                             HasDueDate(t) /\ DatePortion(t.dueDate) = key)
    /\ \A cell \in YearCellsShown :
         LET key == UtcDayText(cell.date)
         IN  cell.hasTasks <=>
                 \E i \in 1..Len(tasks) :
                     HasDueDate(tasks[i]) /\ DatePortion(tasks[i].dueDate) = key

\* A shown cell whose ISO form falls on another day than the one it
\* displays lists one task of the collection and leaves the other out.
C1_Witness ==
    \E cell \in DayCellsShown :
        /\ Len(tasks) = 2 /\ Len(cell.tasks) = 1
        /\ UtcDayText(cell.date) /= LocalDayText(cell.date)

----------------------------------------------------------------------------
(* C2 *)

\* C2: a task whose due date has the date component K is listed by a Day,
\* Week or Month cell exactly when the cell displays the local calendar day
\* K, and the Schedule group listing it displays the day K.
C2_CrossViewConsistency ==
    \A i \in 1..Len(tasks) :
        (HasDueDate(tasks[i]) /\ ParseDatePart(DatePortion(tasks[i].dueDate)) /= NaN) =>
            /\ \A cell \in DayCellsShown :
                 Holds(cell.tasks, tasks[i])
                     <=> LocalDayText(cell.date) = DatePortion(tasks[i].dueDate)
            /\ \A groups \in ScheduleShown :
                 \A g \in 1..Len(groups) :
                     Holds(groups[g].tasks, tasks[i]) =>
                         /\ groups[g].displayDate /= NaN
                         /\ LocalDayText(groups[g].displayDate)
                              = DatePortion(tasks[i].dueDate)

----------------------------------------------------------------------------
(* C8 *)

\* C8: a task whose due date is a non-empty text that does not parse is
\* listed by no day cell, flags no Year-view day, and is in no Schedule
\* group; and no cell's toISOString raises.
C8_UnparsableExcluded ==
    /\ \A cell \in DayCellsShown : toISOString(cell.date) /= RangeError
    /\ \A i \in 1..Len(tasks) :
        (HasDueDate(tasks[i]) /\ DateParse(tasks[i].dueDate) = NaN) =>
            /\ \A cell \in DayCellsShown : ~Holds(cell.tasks, tasks[i])
            /\ \A cell \in YearCellsShown :
                 DatePortion(tasks[i].dueDate) /= UtcDayText(cell.date)
            /\ \A groups \in ScheduleShown :
                 \A g \in 1..Len(groups) : ~Holds(groups[g].tasks, tasks[i])

----------------------------------------------------------------------------
(* C9 *)

\* C9: a task without a due date (undefined or the empty string) is listed
\* by no day cell of any view, is in no getTasksForDate result of the Year
\* view, and is in no Schedule group.
C9_AbsentDueDateNowhere ==
    LET absent == {tasks[i] : i \in {j \in 1..Len(tasks) : ~HasDueDate(tasks[j])}}
        Clear(list) == \A k \in 1..Len(list) : list[k] \notin absent
    IN  /\ \A cell \in DayCellsShown : Clear(cell.tasks)
        /\ \A cell \in YearCellsShown : Clear(getTasksForDate(cell.date))
        /\ \A groups \in ScheduleShown :
             \A g \in 1..Len(groups) : Clear(groups[g].tasks)

\* The Schedule view shows a dated task while the collection also holds a
\* task without a due date.
C9_Witness ==
    /\ Len(tasks) = 2
    /\ tasks[1].dueDate = <<>>
    /\ \E groups \in ScheduleShown : Len(groups) = 1 /\ Len(groups[1].tasks) = 1

----------------------------------------------------------------------------
(* Vocabulary of the navigation properties *)

\* The date `offset` calendar months away from date, on the same day of the
\* month, or on the last day of the target month when that month is shorter;
\* the time of day is kept.
ClampedMonthShift(date, offset) ==
    LET l == LocalTime(date)
        months == getFullYear(date) * 12 + getMonth(date) + offset
        y == months \div 12
        m == months % 12
        last == DaysInMonthOf(y, m)
        d == IF getDate(date) <= last THEN getDate(date) ELSE last
    IN  UTCTime(MakeDay(y, m, d) * MinutesPerDay + TimeWithinDay(l))

\* The date `offset` calendar years away from date, in the same month, on
\* the same day or on the last day of the month when the day does not exist
\* in the target year; the time of day is kept.
ClampedYearShift(date, offset) == ClampedMonthShift(date, 12 * offset)

\* A step is a click on the prev or next button.
IsNavigation == navCount' = navCount + 1

----------------------------------------------------------------------------
(* C3 *)

\* C3: in Month mode, prev and next move the anchor by exactly one calendar
\* month, onto the last valid day of the target month when the anchor's day
\* of the month does not exist there; from January 31 next never leaves a
\* day in March.
C3_MonthNavClamps ==
    [][(viewMode = "Month" /\ IsNavigation) =>
          /\ currentDate' \in {ClampedMonthShift(currentDate, 1),
                               ClampedMonthShift(currentDate, 0 - 1)}
          /\ (getMonth(currentDate) = 0 /\ getDate(currentDate) = 31)
                => getMonth(currentDate') \in {1, 11}]_vars

----------------------------------------------------------------------------
(* C4 *)

\* C4: in Year mode, prev and next move the anchor by exactly one calendar
\* year keeping month and day; from February 29 the result is February 28
\* of the adjacent year, never March 1.
C4_YearNavClamps ==
    [][(viewMode = "Year" /\ IsNavigation) =>
          /\ currentDate' \in {ClampedYearShift(currentDate, 1),
                               ClampedYearShift(currentDate, 0 - 1)}
          /\ getMonth(currentDate') = getMonth(currentDate)]_vars

----------------------------------------------------------------------------
(* C5 *)

\* C5: the Month view's grid is firstWeekdayOffset empty cells followed by
\* one cell for each day 1..daysInMonth of the anchor's month, and nothing
\* behind them; January 2024 gives 32 cells.
C5_MonthGridLength ==
    viewMode = "Month" =>
        LET cells == renderMonthView
            y == getFullYear(currentDate)
            m == getMonth(currentDate)
            firstWeekdayOffset == WeekDay(MakeDay(y, m, 1))
            daysInMonth == DaysInMonthOf(y, m)
        IN  /\ Len(cells) = firstWeekdayOffset + daysInMonth
            /\ \A i \in 1..firstWeekdayOffset : cells[i].kind = "empty"
            /\ \A k \in 1..daysInMonth :
                 /\ cells[firstWeekdayOffset + k].kind = "day"
                 /\ cells[firstWeekdayOffset + k].day = k
                 /\ LocalDayText(cells[firstWeekdayOffset + k].date)
                      = IsoDate(y, m + 1, k)
            /\ (y = 2024 /\ m = 0) => Len(cells) = 32

\* The Month view shows January 2024.
C5_Witness ==
    /\ viewMode = "Month"
    /\ getFullYear(currentDate) = 2024 /\ getMonth(currentDate) = 0
    /\ Len(renderMonthView) = 32

----------------------------------------------------------------------------
(* C10 *)

\* C10: clicking day d of month m in the Year view leaves viewMode = Day
\* and an anchor whose year is the Year view's year, whose month is m and
\* whose day is d; and a step that changes viewMode together with the anchor
\* is such a click.
C10_YearSelectsDay ==
    [][/\ \A c \in YearClicks :
            YearDayClick(c[1], c[2]) =>
                /\ viewMode' = "Day"
                /\ getFullYear(currentDate') = getFullYear(currentDate)
                /\ getMonth(currentDate') = c[1]
                /\ getDate(currentDate') = c[2]
       /\ (viewMode' /= viewMode /\ currentDate' /= currentDate) =>
            /\ viewMode = "Year" /\ viewMode' = "Day"
            /\ \E c \in YearClicks : YearDayClick(c[1], c[2])]_vars

\* February 29 has been clicked in the Year view of 2024.
C10_Witness ==
    /\ viewMode = "Day" /\ navCount = 0
    /\ getFullYear(currentDate) = 2024
    /\ getMonth(currentDate) = 1 /\ getDate(currentDate) = 29

----------------------------------------------------------------------------
(* C11 *)

\* C11: the Today button pressed twice in a row, with no other event and no
\* movement of the clock in between, stores the same anchor the second time
\* as the first: after a press, the date a further press would store is the
\* anchor already stored.
C11_TodayIdempotent ==
    [][Today => /\ TodayAnchor' = currentDate'
                /\ isSameDate(TodayAnchor', currentDate')]_vars

\* Today has been pressed after the clock has moved on and the anchor had
\* been navigated away.
C11_Witness ==
    /\ currentDate = now
    /\ now /= UTCTime(StartLocal)
    /\ navCount > 0

----------------------------------------------------------------------------
(* C12 *)

\* C12: over the empty task collection every view renders: each day cell of
\* the Day, Week and Month views has a valid date and no task chip, no day
\* of the Year view is flagged as having tasks, and the Schedule view
\* renders once, with zero groups.
C12_EmptyState ==
    tasks = <<>> =>
        LET dayCells == DayCellsShown
            yearCells == YearCellsShown
        IN  /\ \A cell \in dayCells : cell.date /= NaN /\ cell.tasks = <<>>
            /\ viewMode \in {"Day", "Week", "Month"} => dayCells /= {}
            /\ \A cell \in yearCells : cell.date /= NaN /\ ~cell.hasTasks
            /\ viewMode = "Year" => yearCells /= {}
            /\ viewMode = "Schedule" => ScheduleShown = {<<>>}

\* The Year view of 2024 is shown over the empty collection.
C12_Witness ==
    /\ tasks = <<>>
    /\ viewMode = "Year"
    /\ Cardinality(YearCellsShown) = 366

----------------------------------------------------------------------------
(* C13 *)

\* The category names a task can carry: the names typed, trimmed or not,
\* the initial names, and the id of an initial category.
CategoryProbes ==
    CategoryNameInputs \cup {Trim(n) : n \in CategoryNameInputs}
        \cup {INITIAL_CATEGORIES[i].name : i \in 1..Len(INITIAL_CATEGORIES)}
        \cup {<<"1">>, <<"u", "u", "i", "d", "-", "1">>}

\* C13: getCategoryColor(name) is the colour of the category of that name
\* (of the first one when several carry it), whatever the ids are, and the
\* default colour token when no category carries the name; it never raises.
C13_CategoryColor ==
    \A name \in CategoryProbes :
        LET named == {i \in 1..Len(categories) : categories[i].name = name}
            result == getCategoryColor(name)
        IN  /\ result /= "TypeError"
            /\ named = {} => result = "bg-gray-400"
            /\ named /= {} =>
                 \E i \in named :
                     /\ result = categories[i].color
                     /\ \A j \in named : i <= j

\* A second category named Work has been added in red, and Home is still a
\* dangling name.
C13_Witness ==
    /\ Len(categories) = 4
    /\ categories[4].name = Chars("Work") /\ categories[4].color = "bg-red-500"
    /\ getCategoryColor(Chars("Work")) = "bg-blue-500"
    /\ getCategoryColor(Chars("Home")) = "bg-gray-400"

----------------------------------------------------------------------------
(* C14 *)

\* A step is a click on a day cell or on Add Task.
CellClickStep ==
    \/ DayAddTaskClick
    \/ \E idx \in 1..7 : WeekCellClick(idx)
    \/ \E day \in 1..31 : MonthCellClick(day)

\* C14: a click on a Week or Month day cell, or on Add Task in the Day view,
\* invokes onSelectDate once, with the date of that cell; a click on a task
\* chip invokes onSelectTask once, with the chip's task, and invokes no
\* onSelectDate; and no click changes the anchor date or the view mode.
C14_CallbacksNotify ==
    [][IF CellClickStep
       THEN /\ currentDate' = currentDate /\ viewMode' = viewMode
            /\ Len(fired') = 1
            /\ fired'[1].cb = "onSelectDate"
            /\ viewMode = "Day" => fired'[1].date = currentDate
            /\ viewMode = "Week" =>
                 \A idx \in 1..7 :
                     WeekCellClick(idx) => fired'[1].date = renderWeekView[idx].date
            /\ viewMode = "Month" =>
                 \A day \in 1..31 :
                     MonthCellClick(day) =>
                         LET cells == renderMonthView
                         IN  \E i \in 1..Len(cells) :
                                 /\ cells[i].kind = "day"
                                 /\ cells[i].day = day
                                 /\ cells[i].date = fired'[1].date
       ELSE TaskChipClick =>
            /\ currentDate' = currentDate /\ viewMode' = viewMode
            /\ Len(fired') = 1
            /\ \A k \in 1..Len(fired') : fired'[k].cb /= "onSelectDate"
            /\ fired'[1].cb = "onSelectTask"
            /\ \E chip \in ChipsShown : chip.task = fired'[1].task]_vars

\* A chip inside a Month cell has been clicked and its task is being edited.
C14_Witness ==
    /\ viewMode = "Month"
    /\ Len(fired) = 1 /\ fired[1].cb = "onSelectTask"
    /\ form.isModalOpen /\ form.editingTask = <<fired[1].task>>

----------------------------------------------------------------------------
(* C15 *)

\* C15: the Schedule view's sorted list holds exactly the tasks with a due
\* date; any two of them whose due dates are timestamps stand in ascending
\* order of the timestamp, and in input-collection order when the timestamps
\* are equal.
C15_ScheduleSort ==
    \A sorted \in sortedTasksOutcomes :
        /\ Len(sorted) = Len(DatedTasks)
        /\ \A i \in 1..Len(DatedTasks) : Holds(sorted, DatedTasks[i])
        /\ \A i, j \in 1..Len(sorted) :
             (/\ i < j
              /\ DateParse(sorted[i].dueDate) /= NaN
              /\ DateParse(sorted[j].dueDate) /= NaN) =>
                 \/ DateParse(sorted[i].dueDate) < DateParse(sorted[j].dueDate)
                 \/ /\ DateParse(sorted[i].dueDate) = DateParse(sorted[j].dueDate)
                    /\ PositionOf(sorted[i].id) < PositionOf(sorted[j].id)

----------------------------------------------------------------------------
(* C16 *)

\* C16: whenever every due date is a timestamp, with whatever zone offset,
\* the Schedule groups stand in ascending order of the date of their bucket
\* key.
C16_GroupOrder ==
    (\A i \in 1..Len(DatedTasks) : DateParse(DatedTasks[i].dueDate) /= NaN) =>
        \A groups \in renderScheduleView : GroupsAscending(groups)

----------------------------------------------------------------------------
(* C17 *)

\* C17: for a fixed task collection, time zone and current time, the
\* Schedule view's groups, their order and their contents are the same
\* for every anchor date: after prev, next or Today in Schedule mode, with
\* the collection and the clock as they were, the Schedule view lists
\* exactly what it listed before the click.
C17_ScheduleIgnoresAnchor ==
    (viewMode = "Schedule" /\ listed.tasks = tasks /\ listed.now = now) =>
        renderScheduleView = listed.groups

\* The Schedule view shows two groups after prev or next has moved the
\* anchor away from today.
C17_Witness ==
    /\ viewMode = "Schedule"
    /\ navCount > 0
    /\ ~isSameDate(currentDate, now)
    /\ listed.tasks = tasks /\ listed.now = now
    /\ \E groups \in listed.groups : Len(groups) = 2

----------------------------------------------------------------------------
(* C18 *)

\* C18: from every reachable state, the Today button sets the anchor to the
\* current date and leaves the view mode as it is, and prev and next leave
\* the view mode, the task collection, the categories and the modals as
\* they are: of the component's state they change the anchor only.
C18_HeaderKeepsViewMode ==
    [][/\ Today => (currentDate' = now /\ viewMode' = viewMode)
       /\ IsNavigation =>
             /\ viewMode' = viewMode
             /\ UNCHANGED <<tasks, nextId, now, tz, categories, fired, form, draggedItem, reminder, voice>>]_vars

\* Today has been pressed in the Schedule view after both navigation clicks
\* and a movement of the clock.
C18_Witness ==
    /\ viewMode = "Schedule"
    /\ currentDate = now
    /\ now /= UTCTime(StartLocal)
    /\ navCount = MaxNav

----------------------------------------------------------------------------
(* C19 *)

\* C19: in Day mode next moves the anchor to the calendar day after it and
\* prev to the calendar day before it; in Week mode next moves it 7
\* calendar days on and prev 7 calendar days back.  The time of day is
\* kept, and the new date is the right one of the neighbouring month or
\* year when the step crosses the end of a month or of a year.
C19_DayWeekNavigation ==
    [][\A direction \in Directions :
          (viewMode \in {"Day", "Week"} /\ navigate(direction)) =>
              LET days == IF viewMode = "Day" THEN 1 ELSE 7
                  sign == IF direction = "next" THEN 1 ELSE 0 - 1
                  before == LocalTime(currentDate)
                  after == LocalTime(currentDate')
              IN  /\ Day(after) = Day(before) + (sign * days)
                  /\ TimeWithinDay(after) = TimeWithinDay(before)]_vars

\* One next in Day mode has taken the anchor from December 31 to January 1
\* of the following year.
C19_Witness ==
    /\ viewMode = "Day"
    /\ navCount = 1
    /\ getFullYear(currentDate) = 2025
    /\ getMonth(currentDate) = 0
    /\ getDate(currentDate) = 1

----------------------------------------------------------------------------
(* C20 *)

\* C20: for every anchor the Week view computes exactly 7 dates on 7
\* consecutive calendar days, the first of them the Sunday (weekday 0) on
\* or before the anchor's day and at most 6 days before it, so that the
\* anchor's own calendar date is one of the 7, also when the week reaches
\* into the next month or year.
C20_WeekWindow ==
    LET days == [k \in 1..7 |-> Day(LocalTime(weekDays[k]))]
        anchor == Day(LocalTime(currentDate))
    IN  /\ DOMAIN weekDays = 1..7
        /\ \A k \in 1..6 : days[k + 1] = days[k] + 1
        /\ getDay(weekDays[1]) = 0
        /\ days[1] <= anchor /\ anchor <= days[1] + 6
        /\ \E k \in 1..7 : isSameDate(weekDays[k], currentDate)

\* The Week view is shown for an anchor whose week begins in one year and
\* ends in the next.
C20_Witness ==
    /\ viewMode = "Week"
    /\ getFullYear(weekDays[1]) + 1 = getFullYear(weekDays[7])
    /\ getMonth(weekDays[1]) = 11 /\ getMonth(weekDays[7]) = 0

----------------------------------------------------------------------------
(* C21 *)

\* C21: the Year view produces 12 mini grids, the k-th for month k of the
\* anchor's year: as many leading empty cells as the weekday index of the
\* month's first day, then one cell for each day 1..daysInMonth, on that
\* local calendar day; and a day's has-tasks flag is true exactly when
\* getTasksForDate for its date is not empty.
C21_YearViewStructure ==
    viewMode = "Year" =>
        LET grids == renderYearView
            y == getFullYear(currentDate)
        IN  /\ DOMAIN grids = 1..12
            /\ \A k \in 1..12 :
                 LET grid == grids[k]
                     firstWeekdayOffset == WeekDay(MakeDay(y, k - 1, 1))
                     daysInMonth == DaysInMonthOf(y, k - 1)
                 IN  /\ Len(grid) = firstWeekdayOffset + daysInMonth
                     /\ \A i \in 1..firstWeekdayOffset : grid[i].kind = "empty"
                     /\ \A d \in 1..daysInMonth :
                          LET cell == grid[firstWeekdayOffset + d]
                          IN  /\ cell.kind = "day" /\ cell.day = d
                              /\ LocalDayText(cell.date) = IsoDate(y, k, d)
                              /\ cell.hasTasks <=> getTasksForDate(cell.date) /= <<>>

\* The Year view of the leap year 2024 flags a day: February has 4 leading
\* empty cells and 29 days.
C21_Witness ==
    /\ viewMode = "Year"
    /\ getFullYear(currentDate) = 2024
    /\ Len(renderYearView[2]) = 33
    /\ \E cell \in YearCellsShown : cell.hasTasks
    /\ \E cell \in YearCellsShown : ~cell.hasTasks

----------------------------------------------------------------------------
(* C22 *)

\* C22: when a click on a day cell has opened the task form through
\* onSelectDate and the form is saved with the due date the click filled
\* in, the task created is one getTasksForDate returns for the date of that
\* cell, in every time zone.
C22_CreateFromCell ==
    [][(/\ saveTaskModal
        /\ form.editingTask = <<>>
        /\ Len(fired) = 1 /\ fired[1].cb = "onSelectDate"
        /\ form.formDueDate
             = openTaskModalForDate(form, fired[1].date).formDueDate) =>
           /\ tasks'[1].id = nextId'
           /\ MatchesDate(tasks'[1], fired[1].date)]_vars

\* East of UTC a task has been created from a cell of the Month view whose
\* local day is not the UTC day of its date, and the cell lists it.
C22_Witness ==
    /\ tz > 0
    /\ viewMode = "Month"
    /\ ~form.isModalOpen /\ form.editingTask = <<>>
    /\ Len(fired) = 1 /\ fired[1].cb = "onSelectDate"
    /\ Len(tasks) = 3 /\ tasks[1].id = 3
    /\ getDate(fired[1].date) = 10
    /\ SplitFirst(tasks[1].dueDate, "T") = IsoDate(2024, 5, 9)
    /\ Holds(getTasksForDate(fired[1].date), tasks[1])

----------------------------------------------------------------------------
(* C23 *)

\* The YYYY-MM-DD component a due date is bucketed under; none for a task
\* without a due date.
BucketKey(dueDate) ==
    IF ~Truthy(dueDate) THEN <<>> ELSE SplitFirst(dueDate, "T")

\* C23: when an existing task has been opened in the edit form and the
\* form is saved with the due date the opening filled in, the task keeps
\* its bucket key (the YYYY-MM-DD component of dueDate), whatever the form
\* of the stored due date and the time zone.
C23_EditKeepsDay ==
    [][(/\ saveTaskModal
        /\ form.editingTask /= <<>>
        /\ \E opened \in openTaskModalForTask(form, form.editingTask[1]) :
             opened.isModalOpen /\ opened.formDueDate = form.formDueDate) =>
           \A i \in 1..Len(tasks') :
               tasks'[i].id = form.editingTask[1].id =>
                   BucketKey(tasks'[i].dueDate)
                       = BucketKey(form.editingTask[1].dueDate)]_vars

----------------------------------------------------------------------------
(* C24 *)

\* The number of entries of the list equal to the task t.
Copies(list, t) == Cardinality({i \in 1..Len(list) : list[i] = t})

\* C24: a drop only reorders.  The collection after an onDrop holds the
\* same tasks as just before it, each as often as before, with the same
\* ids and field values: a drop removes no task, brings no deleted task
\* back and undoes no update through the stored draggedItem.
C24_DropOnlyReorders ==
    [][(\E dropIndex \in 0..(MaxTasks - 1) : onDrop(dropIndex)) =>
          /\ Len(tasks') = Len(tasks)
          /\ \A i \in 1..Len(tasks) :
                Copies(tasks', tasks[i]) = Copies(tasks, tasks[i])]_vars

----------------------------------------------------------------------------
(* C25 *)

\* C25: after any sequence of add, duplicate, update, toggle, delete and
\* import (including the import of the same file twice), no two tasks of
\* the collection have the same id.
C25_IdsUnique ==
    \A i, j \in 1..Len(tasks) : tasks[i].id = tasks[j].id => i = j

----------------------------------------------------------------------------
(* C26 *)

\* C26: handleToggleComplete(id) turns the status of each task with that id
\* to Todo if it was Done and to Done otherwise (from Todo and from In
\* Progress), and leaves every other task, every other field, the order of
\* the collection and the rest of App's state as they are.  So a second
\* toggle would give back a status of Todo or Done, and would give Todo for
\* a task that was In Progress.
C26_ToggleComplete ==
    [][\A id \in TaskIds :
          handleToggleComplete(id) =>
              /\ Len(tasks') = Len(tasks)
              /\ \A i \in 1..Len(tasks) :
                    IF tasks[i].id = id
                    THEN /\ tasks'[i].status
                              = (IF tasks[i].status = "Done" THEN "Todo" ELSE "Done")
                         /\ tasks'[i] = [tasks[i] EXCEPT !.status = tasks'[i].status]
                         /\ ToggledStatus(tasks'[i].status)
                              = (IF tasks[i].status = "In Progress" THEN "Todo"
                                 ELSE tasks[i].status)
                    ELSE tasks'[i] = tasks[i]
              /\ UNCHANGED <<nextId, categories, form, draggedItem>>]_vars

\* An imported task in progress has been toggled twice and is Todo, behind
\* a task added later that has been toggled to Done.
C26_Witness ==
    /\ Len(tasks) = 2
    /\ tasks[1].id = 1 /\ tasks[1].status = "Done"
    /\ tasks[2].id = ImportFile[1].id /\ tasks[2].status = "Todo"

----------------------------------------------------------------------------
(* The reminder *)

\* A step in which the due-tomorrow check completes.
CheckCompletes ==
    ~reminder.hasCheckedReminders /\ reminder'.hasCheckedReminders

\* A step in which the reminder modal opens.
ModalOpens == ~reminder.showReminderModal /\ reminder'.showReminderModal

\* The calendar day after today on the user's clock, as YYYY-MM-DD.
LocalTomorrowText == LocalDayText(now + MinutesPerDay)

\* Once the check has completed it stays completed, no timer is pending and
\* no step opens the modal.
ReminderChecksOnce ==
    reminder.hasCheckedReminders =>
        /\ reminder'.hasCheckedReminders
        /\ ~reminder'.timer
        /\ ~ModalOpens

\* The check completes over a non-empty collection only.
ReminderNeedsTasks == CheckCompletes => tasks /= <<>>

\* C27: the due-tomorrow check completes at most once in a page session
\* (after hasCheckedReminders is set no task change opens the modal), never
\* over an empty collection, and the modal opens only with a non-empty list
\* made solely of tasks that are not Done and whose dueDate starts with
\* tomorrow's YYYY-MM-DD.
C27_ReminderOnce ==
    [][/\ ReminderChecksOnce
       /\ ReminderNeedsTasks
       /\ ModalOpens =>
              /\ reminder'.upcomingTasks /= <<>>
              /\ \A i \in 1..Len(reminder'.upcomingTasks) :
                     LET t == reminder'.upcomingTasks[i]
                     IN  /\ t.status /= "Done"
                         /\ Truthy(t.dueDate)
                         /\ StartsWith(t.dueDate, LocalTomorrowText)]_vars

----------------------------------------------------------------------------
(* VoiceInput *)

\* The positions of recorder r's log at which callback cb was called.
CallsTo(r, cb) ==
    {i \in 1..Len(voice.recorders[r].calls) : voice.recorders[r].calls[i].cb = cb}

\* Recorder r has been created and is in one of the phases.
InPhase(r, phases) ==
    r <= Len(voice.recorders) /\ voice.recorders[r].phase \in phases

\* C28: for each recording, onTaskParsed is called at most once, only after
\* onTranscription was called with the text transcribed for that recording,
\* only when that text is longer than 5 characters, and never when
\* transcription or parsing threw.
C28_VoicePipelineOrder ==
    \A r \in 1..Len(voice.recorders) :
        LET rec == voice.recorders[r]
        IN  /\ Cardinality(CallsTo(r, "onTaskParsed")) <= 1
            /\ Cardinality(CallsTo(r, "onTranscription")) <= 1
            /\ \A i \in CallsTo(r, "onTaskParsed") :
                   /\ ~rec.threw
                   /\ rec.text /= <<>>
                   /\ Len(rec.text[1]) > 5
                   /\ \E j \in CallsTo(r, "onTranscription") :
                          j < i /\ rec.calls[j].arg = rec.text[1]

\* One recording ended in onTaskParsed, another was processed without it.
C28_Witness ==
    /\ \E r \in 1..Len(voice.recorders) : CallsTo(r, "onTaskParsed") /= {}
    /\ \E r \in 1..Len(voice.recorders) :
           /\ InPhase(r, {"done"})
           /\ CallsTo(r, "onTaskParsed") = {}
           /\ \/ voice.recorders[r].threw
              \/ (voice.recorders[r].text /= <<>> /\ Len(voice.recorders[r].text[1]) = 5)

\* C29: whenever a recording has stopped, and the stop event is delivered
\* and the service calls settle, isProcessing returns to false and the
\* tracks of that recording's stream are stopped, whether processing
\* succeeded or threw.
C29_ProcessingFinishes ==
    \A r \in 1..MaxRecordings :
        InPhase(r, {"inactive"})
            ~> (/\ InPhase(r, {"done"})
                /\ ~voice.recorders[r].tracksLive
                /\ ~voice.isProcessing)

\* One recording was processed to the end and another one threw; no
\* track is live and processing is over.
C29_Witness ==
    /\ ~voice.isProcessing
    /\ \E r \in 1..Len(voice.recorders) :
           /\ InPhase(r, {"done"})
           /\ voice.recorders[r].threw
           /\ ~voice.recorders[r].tracksLive
    /\ \E r \in 1..Len(voice.recorders) :
           /\ InPhase(r, {"done"})
           /\ CallsTo(r, "onTaskParsed") /= {}
           /\ ~voice.recorders[r].tracksLive

\* C30: isRecording and isProcessing are never both true, and no recording
\* starts while an earlier one is being processed.
C30_RecordingExcludesProcessing ==
    [][/\ ~(voice'.isRecording /\ voice'.isProcessing)
       /\ Len(voice'.recorders) > Len(voice.recorders) =>
              /\ ~voice.isProcessing
              /\ \A r \in 1..Len(voice.recorders) :
                     ~InPhase(r, {"transcribing", "parsing"})]_vars

====
